---- MODULE Spec2Model ----
(***************************************************************************)
(* Bridgy browser-extension handlers (src/browser.py): the Activity store, *)
(* the post and likes endpoints that merge scraped data into it, and the   *)
(* token authorization they run first.                                     *)
(*                                                                         *)
(* Python dicts are functions whose DOMAIN is the set of keys present, so  *)
(* {} is the empty function <<>> and d.get(k, default) is Get(d, k,        *)
(* default).  A request parameter that was not sent is "" (webapp2's       *)
(* request.get).  A datastore lookup that finds nothing is the absence of  *)
(* the key from the store's DOMAIN.                                        *)
(***************************************************************************)
EXTENDS Integers, Sequences, FiniteSets, TLC

\* ---------------------------------------------------------------- bounds
MaxReplyId == 2        \* reply ids are 1..MaxReplyId
MaxLikeId == 2         \* like ids are 1..MaxLikeId
MaxSubmissions == 3    \* requests served in one behaviour
MaxPosts == 5          \* requests served when only posts are submitted
MaxCalls == 2          \* requests served over varying Account and Domain stores
MaxAdds == 3           \* OAuth callbacks served, not counting those of restarted flows
MaxKeys == 3           \* keys a state dict is drawn over
MaxTime == 2           \* the clock runs from 0 to MaxTime
MaxTtl == 1            \* pages are stored to expire in 0..MaxTtl
MaxFetches == 2        \* remote fetches requested

\* @ndb.transactional() re-runs the function on a commit conflict; the
\* library's default is three retries.
MaxRetries == 3

\* ------------------------------------------------------------ dict helpers
Get(d, k, default) == IF k \in DOMAIN d THEN d[k] ELSE default

Put(d, k, v) == [x \in DOMAIN d \cup {k} |-> IF x = k THEN v ELSE d[x]]

Range(s) == {s[k] : k \in DOMAIN s}

RECURSIVE SortedSeq(_)
\* sorted(..., key=itemgetter('id')) over a set of distinct ids
SortedSeq(S) ==
  IF S = {} THEN <<>>
  ELSE LET m == CHOOSE x \in S : \A y \in S : x <= y
       IN <<m>> \o SortedSeq(S \ {m})

\* --------------------------------------------------------------- accounts
Accounts == {"alice", "bob"}
SiloDomain == "instagram.com"

AliceActor == [username |-> "alice", url |-> "https://instagram.com/alice",
               urls |-> <<"https://alice.example/">>, to |-> "@public"]
BobActor == [username |-> "bob", url |-> "https://instagram.com/bob",
             urls |-> <<"https://bob.example/">>, to |-> "@public"]
PrivateActor == [username |-> "alice", url |-> "https://instagram.com/alice",
                 urls |-> <<"https://alice.example/">>, to |-> "@private"]

\* ------------------------------------------------------------- activities
ActivityId == "tag:instagram.com:1"
ReplyIds == 1..MaxReplyId
Contents == {"a", "b"}

\* a scraped reply: id and content, with or without a url field
Replies ==
  {[id |-> i, content |-> c] : i \in ReplyIds, c \in Contents}
  \cup {[id |-> i, content |-> c, url |-> "u"] : i \in ReplyIds, c \in Contents}

\* replies that differ only in their id
PlainReplies == {[id |-> i, content |-> "a"] : i \in ReplyIds}

Likes == {[id |-> i, verb |-> "like"] : i \in 1..MaxLikeId}

Ids(items) == {items[k].id : k \in DOMAIN items}

DistinctIds(items) == Cardinality(Ids(items)) = Len(items)

\* what a scrape can yield as a collection: distinct ids, in any order
ItemLists(S, n) ==
  UNION {{l \in [1..k -> S] : DistinctIds(l)} : k \in 0..n}

SortedLists(S, n) ==
  {l \in ItemLists(S, n) : \A j, k \in DOMAIN l : j < k => l[j].id < l[k].id}


\* ------------------------------------------------------------------ merge
\* The rule "objects of the updates list overwrite objects of the existing
\* list with the same id; the result is sorted by id".  granary's
\* merge_by_id(existing, field, new), which update_activity and
\* merge_scraped_reactions call, applies the same rule to existing[field]
\* in place.
\* variant: the first object with an id is kept, not the last
merge_by_id_first_wins(existing, updates) ==
  LET objs == existing \o updates
      First(i) == objs[CHOOSE k \in DOMAIN objs :
                         /\ objs[k].id = i
                         /\ \A j \in DOMAIN objs : j < k => objs[j].id # i]
      order == SortedSeq(Ids(objs))
  IN [k \in DOMAIN order |-> First(order[k])]

RECURSIVE InsertionOrder(_)
\* the distinct ids of a list, in the order they first appear
InsertionOrder(ids) ==
  IF ids = <<>> THEN <<>>
  ELSE LET rest == InsertionOrder(SubSeq(ids, 1, Len(ids) - 1))
       IN IF ids[Len(ids)] \in Range(rest) THEN rest ELSE Append(rest, ids[Len(ids)])

\* variant: the merged objects are left in dict order, not sorted
merge_by_id_unsorted(existing, updates) ==
  LET objs == existing \o updates
      Last(i) == objs[CHOOSE k \in DOMAIN objs :
                        /\ objs[k].id = i
                        /\ \A j \in DOMAIN objs : j > k => objs[j].id # i]
      order == InsertionOrder([k \in DOMAIN objs |-> objs[k].id])
  IN [k \in DOMAIN order |-> Last(order[k])]

merge_by_id(existing, updates) ==
  LET objs == existing \o updates
      Last(i) == objs[CHOOSE k \in DOMAIN objs :
                        /\ objs[k].id = i
                        /\ \A j \in DOMAIN objs : j > k => objs[j].id # i]
      order == SortedSeq(Ids(objs))
  IN [k \in DOMAIN order |-> Last(order[k])]

gr_merge_by_id(existing, field, new) ==
  Put(existing, field, merge_by_id(Get(existing, field, <<>>), new))

ReplyItems(body) == Get(Get(Get(body, "object", <<>>), "replies", <<>>), "items", <<>>)

Tags(body) == Get(Get(body, "object", <<>>), "tags", <<>>)

\* variant: the stored activity is overwritten, its replies are not merged in
merged_activity_overwrite(new_activity, existing_activity) ==
  LET object == Get(new_activity, "object", <<>>)
      replies == Get(object, "replies", <<>>)
      counted == Put(replies, "totalItems", Len(Get(replies, "items", <<>>)))
  IN Put(new_activity, "object", Put(object, "replies", counted))

\* variant: totalItems adds up the two lists instead of counting the merged one
merged_activity_sum(new_activity, existing_activity) ==
  LET object == Get(new_activity, "object", <<>>)
      replies == Get(object, "replies", <<>>)
      merged == gr_merge_by_id(replies, "items", ReplyItems(existing_activity))
      counted == Put(merged, "totalItems",
                     Len(Get(replies, "items", <<>>)) + Len(ReplyItems(existing_activity)))
  IN Put(new_activity, "object", Put(object, "replies", counted))

\* the body update_activity stores when an Activity is already stored:
\* a copy of the new activity whose replies are merged with the stored ones
merged_activity(new_activity, existing_activity) ==
  LET object == Get(new_activity, "object", <<>>)
      replies == Get(object, "replies", <<>>)
      merged == gr_merge_by_id(replies, "items", ReplyItems(existing_activity))
      counted == Put(merged, "totalItems", Len(Get(merged, "items", <<>>)))
  IN Put(new_activity, "object", Put(object, "replies", counted))

\* the entity update_activity creates when no Activity is stored
\* variant: the new activity goes through the merge with an empty body
new_entity_merged(source, id, new_activity) ==
  [source |-> source, activity_json |-> merged_activity(new_activity, <<>>)]

new_entity(source, id, new_activity) ==
  [source |-> source, activity_json |-> new_activity]

\* variant: the merged activity is written to the response
post_output_merged(new_activity, merged) == merged

\* what the post endpoint writes to the response
post_output(new_activity, merged) == new_activity

\* merge_scraped_reactions: the scraped likes are merged by id into the
\* tags of the activity's object; the new likes are returned
merge_scraped_reactions(new_likes, activity_data) ==
  Put(activity_data, "object",
      gr_merge_by_id(activity_data["object"], "tags", new_likes))

\* ---------------------------------------------------------- authorization
domain_from_link(u) ==
  CASE u = "https://alice.example/" -> "alice.example"
    [] u = "https://bob.example/" -> "bob.example"
    [] u = "https://instagram.com/alice" -> "instagram.com"
    [] u = "https://instagram.com/bob" -> "instagram.com"
    [] OTHER -> "unknown.example"

object_urls(actor) ==
  (IF "url" \in DOMAIN actor THEN {actor.url} ELSE {})
  \cup Range(Get(actor, "urls", <<>>))

is_public(actor) == Get(actor, "to", "@public") \in {"@public", "@unlisted"}

\* what an authorization call comes to: the status the request ends with
\* (200 when the call returns), the Account returned ("" when none is), and
\* the text and the domain list of the error message
Outcome(status, source, text, doms) ==
  [status |-> status, source |-> source, text |-> text, domains |-> doms]

\* util.get_required_param: a missing parameter ends the request with 400
MissingParam(name) == Outcome(400, "", "Missing required parameter: " \o name, {})

\* variant: the network's own domain stays among the candidate domains
actor_domains_with_silo(actor, srcs) ==
  LET declared == {domain_from_link(u) : u \in object_urls(actor)}
      url == Get(actor, "url", "")
      found == {a \in DOMAIN srcs : url # "" /\ srcs[a].url = url}
      stored == UNION {srcs[a].domains : a \in found}
  IN declared \cup stored

\* variant: the Account with the actor's url is not looked up
actor_domains_declared(actor, srcs) ==
  {domain_from_link(u) : u \in object_urls(actor)} \ {SiloDomain}

\* the candidate domains check_token_for_actor looks up
actor_domains(actor, srcs) ==
  LET declared == {domain_from_link(u) : u \in object_urls(actor)}
      url == Get(actor, "url", "")
      found == {a \in DOMAIN srcs : url # "" /\ srcs[a].url = url}
      stored == UNION {srcs[a].domains : a \in found}
  IN (declared \cup stored) \ {SiloDomain}

\* variant: the token is read before the actor is looked at
check_token_for_actor_token_first(actor, token, srcs, doms) ==
  LET candidates == actor_domains(actor, srcs)
  IN IF token = "" THEN MissingParam("token")
     ELSE IF ~is_public(actor) THEN Outcome(400, "", "account is private", {})
     ELSE IF \E d \in candidates : d \in DOMAIN doms /\ token \in doms[d]
          THEN Outcome(200, "", "", {})
     ELSE Outcome(403, "", "Token is not authorized for any of", candidates)

check_token_for_actor(actor, token, srcs, doms) ==
  LET candidates == actor_domains(actor, srcs)
  IN IF ~is_public(actor) THEN Outcome(400, "", "account is private", {})
     ELSE IF token = "" THEN MissingParam("token")
     ELSE IF \E d \in candidates : d \in DOMAIN doms /\ token \in doms[d]
          THEN Outcome(200, "", "", {})
     ELSE Outcome(403, "", "Token is not authorized for any of", candidates)

\* util.load_source(handler, param='key'): the Account the key names, ""
\* when there is none
load_source(key, srcs) == IF key \in DOMAIN srcs THEN key ELSE ""

\* source_class().get_by_id(username)
get_by_id(username, srcs) == IF username \in DOMAIN srcs THEN username ELSE ""

\* variant: the token only has to be registered for some domain
auth_any_domain(key, username, token, actor, check_token, srcs, doms) ==
  LET name == IF username = "" /\ actor # <<>> THEN Get(actor, "username", "")
              ELSE username
      source == IF key # "" THEN load_source(key, srcs) ELSE get_by_id(name, srcs)
  IN IF key = "" /\ name = ""
     THEN Outcome(400, "", "No key or username query param and no scraped actor found", {})
     ELSE IF source = "" THEN Outcome(404, "", "No account found", {})
     ELSE IF ~check_token THEN Outcome(200, source, "", {})
     ELSE IF token = "" THEN MissingParam("token")
     ELSE IF \E d \in DOMAIN doms : token \in doms[d]
          THEN Outcome(200, source, "", {})
     ELSE Outcome(403, "", "Token is not authorized for any of", srcs[source].domains)

\* auth: load the Account by key, by username or by the scraped actor's
\* username, then check the token against the Account's domains
auth(key, username, token, actor, check_token, srcs, doms) ==
  LET name == IF username = "" /\ actor # <<>> THEN Get(actor, "username", "")
              ELSE username
      source == IF key # "" THEN load_source(key, srcs) ELSE get_by_id(name, srcs)
  IN IF key = "" /\ name = ""
     THEN Outcome(400, "", "No key or username query param and no scraped actor found", {})
     ELSE IF source = "" THEN Outcome(404, "", "No account found", {})
     ELSE IF ~check_token THEN Outcome(200, source, "", {})
     ELSE IF token = "" THEN MissingParam("token")
     ELSE IF \E d \in DOMAIN doms : token \in doms[d] /\ d \in srcs[source].domains
          THEN Outcome(200, source, "", {})
     ELSE Outcome(403, "", "Token is not authorized for any of", srcs[source].domains)

\* ----------------------------------------------------------------- inputs
\* a scraped post by the given actor, with the given object
Scraped(actor, object) ==
  [id |-> ActivityId, content |-> "post", actor |-> actor, object |-> object]

Collection(items) == [items |-> items, totalItems |-> Len(items)]

\* scraped posts whose replies vary in ids, content and fields, or in ids
\* and order, with and without a replies collection, an object and a
\* totalItems count
RichActivities ==
  {Scraped(AliceActor, [replies |-> Collection(l)]) : l \in SortedLists(Replies, MaxReplyId)}
  \cup {Scraped(AliceActor, [replies |-> Collection(l)]) : l \in ItemLists(PlainReplies, MaxReplyId)}
  \cup {Scraped(AliceActor, [replies |-> [items |-> l]]) : l \in SortedLists(PlainReplies, 1)}
  \cup {Scraped(AliceActor, [url |-> "https://instagram.com/p/1"]),
        [id |-> ActivityId, content |-> "post", actor |-> AliceActor]}

\* scraped posts that differ only in which replies they carry
PlainActivities ==
  {Scraped(AliceActor, [replies |-> Collection(l)]) : l \in SortedLists(PlainReplies, MaxReplyId)}

PostRequest(a, key, username, token) ==
  [new_activity |-> a, actor |-> Get(a, "actor", <<>>),
   key |-> key, username |-> username, token |-> token]

OneReply == [replies |-> Collection(<<[id |-> 1, content |-> "a"]>>)]

SomeActivity == Scraped(AliceActor, OneReply)

\* requests the post endpoint turns down, one that bob is authorized for by
\* key, and one of alice's with her profile marked private
OtherPostRequests ==
  {PostRequest(<<>>, "", "alice", "t1"),
   PostRequest([content |-> "post", actor |-> AliceActor], "", "", "t1"),
   PostRequest(SomeActivity, "", "alice", "t2"),
   PostRequest(SomeActivity, "", "alice", ""),
   PostRequest(SomeActivity, "carol", "", "t1"),
   PostRequest([id |-> ActivityId, content |-> "post"], "", "", "t1"),
   PostRequest(Scraped(BobActor, OneReply), "bob", "", "t2"),
   PostRequest(Scraped(PrivateActor, OneReply), "", "alice", "t1")}

PostRequests(activities) ==
  {PostRequest(a, "", "", "t1") : a \in activities} \cup OtherPostRequests

LikesRequest(id, token, likes) == [id |-> id, token |-> token, new_likes |-> likes]

LikesRequests ==
  {LikesRequest(ActivityId, "t1", l) : l \in SortedLists(Likes, MaxLikeId) \ {<<>>}}
  \cup {LikesRequest("", "t1", <<>>),
        LikesRequest("1", "t1", <<>>),
        LikesRequest(ActivityId, "t2", <<>>),
        LikesRequest("tag:instagram.com:2", "t1", <<>>)}

parse_tag_uri(id) == id \in {ActivityId, "tag:instagram.com:2"}

\* ------------------------------------------------------------------ state
PostProcs == {"p1", "p2"}
LikesProcs == {"l1"}
Procs == PostProcs \cup LikesProcs

VARIABLES
  activities,   \* Activity store: id -> [source, activity_json]
  sources,      \* Account store: key id -> [url, domains]
  domains,      \* Domain store: domain -> set of tokens
  pc,           \* where each request handler stands
  req,          \* the request each handler is serving
  txn,          \* update_activity's transaction: source, entity to put, conflict, retries
  loaded,       \* the Activity entity the likes handler read
  resp,         \* each handler's response: status and the bodies written
  submitted,    \* number of requests received
  accepted,     \* reply ids carried by post submissions that were stored
  liked,        \* like ids carried by likes submissions that were stored
  authz,        \* each handler's authorization call: arguments, stores read, outcome
  tasks,        \* the poll task queue; for remote fetches, the requests sent
  cache,        \* CachedPage store: path -> [html, expires]
  cookie,       \* the browser's logins cookie
  oauth,        \* the OAuth flows the handler restarted: out at Twitter, or back
  now,          \* the clock
  stored        \* what was last stored for each path and not invalidated since

\* what the lifecycle handlers and the page cache work on
lifecycle == <<cache, cookie, oauth, now, stored>>

vars == <<activities, sources, domains, pc, req, txn, loaded, resp, submitted,
          accepted, liked, authz, tasks, cache, cookie, oauth, now, stored>>

NoTxn == [source |-> "", put |-> <<>>, dirty |-> FALSE, retries |-> 0]
NoResp == [status |-> 200, body |-> <<>>]

\* the record kept of a call of auth or check_token_for_actor
Call(fn, actor, token, key, username, check_token, out) ==
  [fn |-> fn, actor |-> actor, token |-> token, key |-> key, username |-> username,
   check_token |-> check_token, srcs |-> sources, doms |-> domains, out |-> out]

\* nothing cached, no cookie, no task
InitSite ==
  /\ tasks = <<>>
  /\ cache = <<>>
  /\ cookie = <<>>
  /\ oauth = {}
  /\ now = 0
  /\ stored = <<>>

Init ==
  /\ activities = <<>>
  /\ sources = [a \in Accounts |->
                  IF a = "alice"
                  THEN [url |-> "https://instagram.com/alice", domains |-> {"alice.example"}]
                  ELSE [url |-> "https://instagram.com/bob", domains |-> {"bob.example"}]]
  /\ domains = [d \in {"alice.example", "bob.example"} |->
                  IF d = "alice.example" THEN {"t1"} ELSE {"t2"}]
  /\ pc = [p \in Procs |-> "idle"]
  /\ req = [p \in Procs |-> <<>>]
  /\ txn = [p \in PostProcs |-> NoTxn]
  /\ loaded = [p \in LikesProcs |-> <<>>]
  /\ resp = [p \in Procs |-> NoResp]
  /\ submitted = 0
  /\ accepted = {}
  /\ liked = {}
  /\ authz = [p \in Procs |-> <<>>]
  /\ InitSite

\* self.abort(status): the request ends with the error status and no body
Abort(p, status) ==
  /\ pc' = [pc EXCEPT ![p] = "done"]
  /\ resp' = [resp EXCEPT ![p] = [status |-> status, body |-> <<>>]]

\* a write to Activity id makes every open transaction that read it conflict
Conflicts(p, id) ==
  [q \in PostProcs |->
     IF q # p /\ pc[q] = "commit" /\ Get(req[q].new_activity, "id", "") = id
     THEN [txn[q] EXCEPT !.dirty = TRUE] ELSE txn[q]]

\* PostHandler.post up to the call of update_activity
PostStart(p, requests, max) ==
  /\ pc[p] = "idle"
  /\ submitted < max
  /\ submitted' = submitted + 1
  /\ \E r \in requests :
       /\ req' = [req EXCEPT ![p] = r]
       /\ IF r.new_activity = <<>>
          THEN Abort(p, 400) /\ UNCHANGED <<txn, authz>>
          ELSE LET a == auth(r.key, r.username, r.token, r.actor, TRUE, sources, domains)
               IN /\ authz' = [authz EXCEPT ![p] =
                                 Call("auth", r.actor, r.token, r.key, r.username, TRUE, a)]
                  /\ IF a.status # 200
                     THEN Abort(p, a.status) /\ UNCHANGED txn
                     ELSE /\ pc' = [pc EXCEPT ![p] = "txn"]
                          /\ txn' = [txn EXCEPT ![p] = [NoTxn EXCEPT !.source = a.source]]
                          /\ UNCHANGED resp
  /\ UNCHANGED <<activities, sources, domains, loaded, accepted, liked, tasks, lifecycle>>

\* variant: the id is not checked, an activity without one is stored under
\* the empty id
update_activity_unchecked(p) ==
  /\ pc[p] = "txn"
  /\ LET new_activity == req[p].new_activity
         id == Get(new_activity, "id", "")
         activity ==
           IF id \in DOMAIN activities
           THEN [activities[id] EXCEPT
                   !.activity_json = merged_activity(new_activity, @)]
           ELSE new_entity(txn[p].source, id, new_activity)
     IN /\ txn' = [txn EXCEPT ![p].put = activity, ![p].dirty = FALSE]
        /\ resp' = [resp EXCEPT ![p].body =
                      Append(@, post_output(new_activity, activity.activity_json))]
        /\ pc' = [pc EXCEPT ![p] = "commit"]
  /\ UNCHANGED <<activities, sources, domains, req, loaded, submitted, accepted, liked,
                 authz, tasks, lifecycle>>

\* one run of update_activity inside its transaction: read, merge, put
\* (held until commit), output
update_activity(p) ==
  /\ pc[p] = "txn"
  /\ LET new_activity == req[p].new_activity
         id == Get(new_activity, "id", "")
     IN IF id = ""
        THEN Abort(p, 400) /\ UNCHANGED txn
        ELSE LET activity ==
                   IF id \in DOMAIN activities
                   THEN [activities[id] EXCEPT
                           !.activity_json = merged_activity(new_activity, @)]
                   ELSE new_entity(txn[p].source, id, new_activity)
             IN /\ txn' = [txn EXCEPT ![p].put = activity, ![p].dirty = FALSE]
                /\ resp' = [resp EXCEPT ![p].body =
                              Append(@, post_output(new_activity, activity.activity_json))]
                /\ pc' = [pc EXCEPT ![p] = "commit"]
  /\ UNCHANGED <<activities, sources, domains, req, loaded, submitted, accepted, liked,
                 authz, tasks, lifecycle>>

\* variant: the put is not transactional, it goes through whatever was
\* written since the read
TxnCommit_unchecked(p) ==
  /\ pc[p] = "commit"
  /\ LET id == Get(req[p].new_activity, "id", "")
     IN /\ activities' = Put(activities, id, txn[p].put)
        /\ txn' = Conflicts(p, id)
  /\ accepted' = accepted \cup Ids(ReplyItems(req[p].new_activity))
  /\ pc' = [pc EXCEPT ![p] = "done"]
  /\ UNCHANGED <<sources, domains, req, loaded, resp, submitted, liked, authz, tasks, lifecycle>>

\* the transaction commits: nothing it read was written since
TxnCommit(p) ==
  /\ pc[p] = "commit"
  /\ ~txn[p].dirty
  /\ LET id == Get(req[p].new_activity, "id", "")
     IN /\ activities' = Put(activities, id, txn[p].put)
        /\ txn' = Conflicts(p, id)
  /\ accepted' = accepted \cup Ids(ReplyItems(req[p].new_activity))
  /\ pc' = [pc EXCEPT ![p] = "done"]
  /\ UNCHANGED <<sources, domains, req, loaded, resp, submitted, liked, authz, tasks, lifecycle>>

\* the commit fails on a conflict: update_activity runs again, until the
\* retries are used up and the error ends the request
TxnConflict(p) ==
  /\ pc[p] = "commit"
  /\ txn[p].dirty
  /\ IF txn[p].retries < MaxRetries
     THEN /\ txn' = [txn EXCEPT ![p].retries = @ + 1, ![p].put = <<>>]
          /\ pc' = [pc EXCEPT ![p] = "txn"]
          /\ UNCHANGED resp
     ELSE Abort(p, 500) /\ UNCHANGED txn
  /\ UNCHANGED <<activities, sources, domains, req, loaded, submitted, accepted, liked,
                 authz, tasks, lifecycle>>

\* LikesHandler.post up to check_token_for_actor
LikesStart(p, max) ==
  /\ pc[p] = "idle"
  /\ submitted < max
  /\ submitted' = submitted + 1
  /\ \E r \in LikesRequests :
       /\ req' = [req EXCEPT ![p] = r]
       /\ IF r.id = "" \/ ~parse_tag_uri(r.id)
          THEN Abort(p, 400) /\ UNCHANGED <<loaded, authz>>
          ELSE IF r.id \notin DOMAIN activities
          THEN Abort(p, 404) /\ UNCHANGED <<loaded, authz>>
          ELSE LET activity_data == activities[r.id].activity_json
                   obj == Get(activity_data, "object", <<>>)
                   author == Get(obj, "author", <<>>)
                   actor == IF author # <<>> THEN author
                            ELSE Get(activity_data, "actor", <<>>)
               IN IF "object" \notin DOMAIN activity_data \/ actor = <<>>
                  THEN Abort(p, 500) /\ UNCHANGED <<loaded, authz>>
                  ELSE LET c == check_token_for_actor(actor, r.token, sources, domains)
                       IN /\ authz' = [authz EXCEPT ![p] =
                                         Call("check_token_for_actor", actor, r.token,
                                              "", "", TRUE, c)]
                          /\ IF c.status # 200
                             THEN Abort(p, c.status) /\ UNCHANGED loaded
                             ELSE /\ loaded' = [loaded EXCEPT ![p] = activities[r.id]]
                                  /\ pc' = [pc EXCEPT ![p] = "merge"]
                                  /\ UNCHANGED resp
  /\ UNCHANGED <<activities, sources, domains, txn, accepted, liked, tasks, lifecycle>>

\* LikesHandler.post from merge_scraped_reactions on: merge the likes into
\* the body that was read and put the entity back
LikesPut(p) ==
  /\ pc[p] = "merge"
  /\ LET activity_data == merge_scraped_reactions(req[p].new_likes, loaded[p].activity_json)
     IN activities' = Put(activities, req[p].id,
                          [loaded[p] EXCEPT !.activity_json = activity_data])
  /\ txn' = Conflicts(p, req[p].id)
  /\ resp' = [resp EXCEPT ![p].body = Append(@, req[p].new_likes)]
  /\ liked' = liked \cup Ids(req[p].new_likes)
  /\ pc' = [pc EXCEPT ![p] = "done"]
  /\ UNCHANGED <<sources, domains, req, loaded, submitted, accepted, authz, tasks, lifecycle>>

\* the response is sent and the handler is free for the next request
Finish(p) ==
  /\ pc[p] = "done"
  /\ pc' = [pc EXCEPT ![p] = "idle"]
  /\ req' = [req EXCEPT ![p] = <<>>]
  /\ resp' = [resp EXCEPT ![p] = NoResp]
  /\ txn' = [q \in PostProcs |-> IF q = p THEN NoTxn ELSE txn[q]]
  /\ loaded' = [q \in LikesProcs |-> IF q = p THEN <<>> ELSE loaded[q]]
  /\ authz' = [authz EXCEPT ![p] = <<>>]
  /\ UNCHANGED <<activities, sources, domains, submitted, accepted, liked, tasks, lifecycle>>

\* the browser endpoints, each handler serving one request
Next ==
  \/ \E p \in PostProcs : PostStart(p, PostRequests(PlainActivities), Cardinality(Procs))
  \/ \E p \in PostProcs : update_activity(p)
  \/ \E p \in PostProcs : TxnCommit(p)
  \/ \E p \in PostProcs : TxnConflict(p)
  \/ \E p \in LikesProcs : LikesStart(p, Cardinality(Procs))
  \/ \E p \in LikesProcs : LikesPut(p)

Spec == Init /\ [][Next]_vars

\* concurrent post submissions only, each handler serving request after request
NextPost ==
  \/ \E p \in PostProcs : PostStart(p, PostRequests(PlainActivities), MaxPosts)
  \/ \E p \in PostProcs : update_activity(p)
  \/ \E p \in PostProcs : TxnCommit(p)
  \/ \E p \in PostProcs : TxnConflict(p)
  \/ \E p \in PostProcs : Finish(p)

SpecPost == Init /\ [][NextPost]_vars

\* one client submitting post after post
NextMerge ==
  \/ PostStart("p1", PostRequests(RichActivities), MaxSubmissions)
  \/ update_activity("p1")
  \/ TxnCommit("p1")
  \/ Finish("p1")

SpecMerge == Init /\ [][NextMerge]_vars

\* --------------------------------------------- poll and profile endpoints
PollProcs == {"q1"}
ProfileProcs == {"f1"}
AuthProcs == Procs \cup PollProcs \cup ProfileProcs

\* an actor whose scraped profile carries no homepage urls
BareActor == [username |-> "alice", url |-> "https://instagram.com/alice", to |-> "@public"]

\* an actor whose declared urls include one on the network's own domain
\* and who has no profile url
SiloActor == [username |-> "alice", to |-> "@public",
              urls |-> <<"https://instagram.com/alice", "https://alice.example/">>]

Registry(alice, bob, silo) ==
  [d \in {"alice.example", "bob.example", SiloDomain} |->
     IF d = "alice.example" THEN alice ELSE IF d = "bob.example" THEN bob ELSE silo]

\* Domain stores: each domain with its owner's token, the network's own
\* domain registered with a token of its own, and a domain with two tokens
Registries ==
  {[d \in {"alice.example", "bob.example"} |-> IF d = "alice.example" THEN {"t1"} ELSE {"t2"}],
   Registry({"t1"}, {"t2"}, {"t3"}),
   Registry({"t1", "t2"}, {}, {"t3"}),
   [d \in {"bob.example"} |-> {"t2"}]}

Account(url, doms) == [url |-> url, domains |-> doms]

\* Account stores: both accounts with their own domain, alice's with the
\* network's own domain among her stored domains, and bob's only
AccountStores ==
  {[a \in Accounts |->
      IF a = "alice" THEN Account("https://instagram.com/alice", {"alice.example"})
      ELSE Account("https://instagram.com/bob", {"bob.example"})],
   [a \in Accounts |->
      IF a = "alice" THEN Account("https://instagram.com/alice", {"alice.example", SiloDomain})
      ELSE Account("https://instagram.com/bob", {"bob.example"})],
   [a \in {"bob"} |-> Account("https://instagram.com/bob", {"bob.example"})]}

\* post requests for the authorization cases: by scraped actor, by
\* username, by key, by nothing, with each token
AuthPostRequests ==
  {PostRequest(SomeActivity, "", "", t) : t \in {"", "t1", "t2", "t3"}}
  \cup {PostRequest(SomeActivity, "", "bob", t) : t \in {"t1", "t2"}}
  \cup {PostRequest(Scraped(PrivateActor, OneReply), "alice", "", t) : t \in {"t1", "t3"}}
  \cup {PostRequest(SomeActivity, "carol", "", "t1"),
        PostRequest(SomeActivity, "", "carol", "t1"),
        PostRequest([id |-> ActivityId, content |-> "post"], "", "", "t1"),
        PostRequest([content |-> "post", actor |-> AliceActor], "", "", "t1"),
        PostRequest(<<>>, "", "alice", "t1")}

PollRequest(key, username) == [key |-> key, username |-> username]

PollRequests ==
  {PollRequest("alice", ""), PollRequest("", "alice"), PollRequest("", "bob"),
   PollRequest("carol", ""), PollRequest("", "carol"), PollRequest("", "")}

ProfileRequest(actor, token) ==
  [actor |-> actor, token |-> token, activities |-> <<Scraped(actor, OneReply)>>]

ProfileRequests ==
  {ProfileRequest(a, t) : a \in {AliceActor, BareActor, SiloActor}, t \in {"t1", "t3"}}
  \cup {ProfileRequest(PrivateActor, t) : t \in {"", "t1"}}
  \cup {ProfileRequest(AliceActor, ""), ProfileRequest(BobActor, "t1"),
        ProfileRequest(BobActor, "t2")}

\* a browser endpoint's Accounts, Domains and handlers, nothing stored yet
InitAuth ==
  /\ activities = <<>>
  /\ sources \in AccountStores
  /\ domains \in Registries
  /\ pc = [p \in AuthProcs |-> "idle"]
  /\ req = [p \in AuthProcs |-> <<>>]
  /\ txn = [p \in PostProcs |-> NoTxn]
  /\ loaded = [p \in LikesProcs |-> <<>>]
  /\ resp = [p \in AuthProcs |-> NoResp]
  /\ submitted = 0
  /\ accepted = {}
  /\ liked = {}
  /\ authz = [p \in AuthProcs |-> <<>>]
  /\ InitSite

\* util.add_poll_task(source): a poll task for the Account joins the queue
add_poll_task(queue, source) == Append(queue, source)

\* variant: the poll task is enqueued for the Account the request names
\* before auth has answered
PollHandler_enqueuing(p, max) ==
  /\ pc[p] = "idle"
  /\ submitted < max
  /\ submitted' = submitted + 1
  /\ \E r \in PollRequests :
       LET a == auth(r.key, r.username, "", <<>>, FALSE, sources, domains)
       IN /\ req' = [req EXCEPT ![p] = r]
          /\ authz' = [authz EXCEPT ![p] =
                         Call("auth", <<>>, "", r.key, r.username, FALSE, a)]
          /\ tasks' = add_poll_task(tasks, IF a.status = 200 THEN a.source ELSE r.username)
          /\ IF a.status # 200
             THEN Abort(p, a.status)
             ELSE /\ resp' = [resp EXCEPT ![p].body = Append(@, "OK")]
                  /\ pc' = [pc EXCEPT ![p] = "done"]
  /\ UNCHANGED <<activities, sources, domains, txn, loaded, accepted, liked, lifecycle>>

\* PollHandler.post
PollHandler(p, max) ==
  /\ pc[p] = "idle"
  /\ submitted < max
  /\ submitted' = submitted + 1
  /\ \E r \in PollRequests :
       LET a == auth(r.key, r.username, "", <<>>, FALSE, sources, domains)
       IN /\ req' = [req EXCEPT ![p] = r]
          /\ authz' = [authz EXCEPT ![p] =
                         Call("auth", <<>>, "", r.key, r.username, FALSE, a)]
          /\ IF a.status # 200
             THEN Abort(p, a.status) /\ UNCHANGED tasks
             ELSE /\ tasks' = add_poll_task(tasks, a.source)
                  /\ resp' = [resp EXCEPT ![p].body = Append(@, "OK")]
                  /\ pc' = [pc EXCEPT ![p] = "done"]
  /\ UNCHANGED <<activities, sources, domains, txn, loaded, accepted, liked, lifecycle>>

\* variant: the domains collected for the token check are saved to the
\* Account that was looked up by the actor's url
ProfileStart_saving(p, max) ==
  /\ pc[p] = "idle"
  /\ submitted < max
  /\ submitted' = submitted + 1
  /\ \E r \in ProfileRequests :
       LET c == check_token_for_actor(r.actor, r.token, sources, domains)
       IN /\ req' = [req EXCEPT ![p] = r]
          /\ authz' = [authz EXCEPT ![p] =
                         Call("check_token_for_actor", r.actor, r.token, "", "", TRUE, c)]
          /\ sources' = [a \in DOMAIN sources |->
                           IF sources[a].url = Get(r.actor, "url", "")
                           THEN [sources[a] EXCEPT !.domains = actor_domains(r.actor, sources)]
                           ELSE sources[a]]
          /\ IF c.status # 200
             THEN Abort(p, c.status)
             ELSE pc' = [pc EXCEPT ![p] = "create"] /\ UNCHANGED resp
  /\ UNCHANGED <<activities, domains, txn, loaded, accepted, liked, tasks, lifecycle>>

\* ProfileHandler.post up to check_token_for_actor
ProfileStart(p, max) ==
  /\ pc[p] = "idle"
  /\ submitted < max
  /\ submitted' = submitted + 1
  /\ \E r \in ProfileRequests :
       LET c == check_token_for_actor(r.actor, r.token, sources, domains)
       IN /\ req' = [req EXCEPT ![p] = r]
          /\ authz' = [authz EXCEPT ![p] =
                         Call("check_token_for_actor", r.actor, r.token, "", "", TRUE, c)]
          /\ IF c.status # 200
             THEN Abort(p, c.status)
             ELSE pc' = [pc EXCEPT ![p] = "create"] /\ UNCHANGED resp
  /\ UNCHANGED <<activities, sources, domains, txn, loaded, accepted, liked, tasks, lifecycle>>

\* source_class().create_new(handler, actor=actor): the Account named by
\* the actor's username is created or updated with the actor's profile url
\* and the domains of its homepage urls
create_new(srcs, actor) ==
  Put(srcs, actor.username,
      Account(Get(actor, "url", ""),
              {domain_from_link(u) : u \in Range(Get(actor, "urls", <<>>))}))

\* ProfileHandler.post from create_new on
ProfileCreate(p) ==
  /\ pc[p] = "create"
  /\ sources' = create_new(sources, req[p].actor)
  /\ resp' = [resp EXCEPT ![p].body = Append(@, req[p].activities)]
  /\ pc' = [pc EXCEPT ![p] = "done"]
  /\ UNCHANGED <<activities, domains, req, txn, loaded, submitted, accepted, liked,
                 authz, tasks, lifecycle>>

\* the browser endpoints over varying Account and Domain stores, each
\* handler serving one request
NextAuth ==
  \/ \E p \in PostProcs : PostStart(p, AuthPostRequests, MaxCalls)
  \/ \E p \in PostProcs : update_activity(p)
  \/ \E p \in PostProcs : TxnCommit(p)
  \/ \E p \in LikesProcs : LikesStart(p, MaxCalls)
  \/ \E p \in LikesProcs : LikesPut(p)
  \/ \E p \in PollProcs : PollHandler(p, MaxCalls)
  \/ \E p \in ProfileProcs : ProfileStart(p, MaxCalls)
  \/ \E p \in ProfileProcs : ProfileCreate(p)

SpecAuth == InitAuth /\ [][NextAuth]_vars

\* ------------------------------------------------------- texts and cookies
\* A text is a sequence of tokens: a word, or one of the characters that
\* the url and cookie formats give a meaning, or the escape of one.  The
\* tokens are listed in the order Python compares them.
Alphabet == <<" ", "%2F", "%3F", "%7C", "+", "/", "?", "Al", "alice", "bob", "twitter", "|">>

Rank(t) == CHOOSE k \in DOMAIN Alphabet : Alphabet[k] = t

RECURSIVE TextLeq(_, _)
\* a <= b for Python strings
TextLeq(a, b) ==
  IF a = <<>> THEN TRUE
  ELSE IF b = <<>> THEN FALSE
  ELSE IF Head(a) = Head(b) THEN TextLeq(Tail(a), Tail(b))
  ELSE Rank(Head(a)) < Rank(Head(b))

RECURSIVE SortedTexts(_)
\* sorted(set of strings)
SortedTexts(S) ==
  IF S = {} THEN <<>>
  ELSE LET m == CHOOSE x \in S : \A y \in S : TextLeq(x, y)
       IN <<m>> \o SortedTexts(S \ {m})

RECURSIVE Join(_, _)
\* sep.join(texts)
Join(texts, sep) ==
  IF texts = <<>> THEN <<>>
  ELSE IF Len(texts) = 1 THEN texts[1]
  ELSE texts[1] \o <<sep>> \o Join(Tail(texts), sep)

RECURSIVE Split(_, _)
\* text.split(sep)
Split(text, sep) ==
  IF \A k \in DOMAIN text : text[k] # sep THEN <<text>>
  ELSE LET k == CHOOSE i \in DOMAIN text :
                  text[i] = sep /\ \A j \in 1..(i - 1) : text[j] # sep
       IN <<SubSeq(text, 1, k - 1)>> \o Split(SubSeq(text, k + 1, Len(text)), sep)

RECURSIVE Strip(_, _)
\* text.strip(c)
Strip(text, c) ==
  IF text = <<>> THEN <<>>
  ELSE IF Head(text) = c THEN Strip(Tail(text), c)
  ELSE IF text[Len(text)] = c THEN Strip(SubSeq(text, 1, Len(text) - 1), c)
  ELSE text

\* urllib.quote_plus
quote_plus(text) ==
  [k \in DOMAIN text |->
     CASE text[k] = "/" -> "%2F"
       [] text[k] = "?" -> "%3F"
       [] text[k] = "|" -> "%7C"
       [] text[k] = " " -> "+"
       [] OTHER -> text[k]]

\* urllib.unquote_plus
unquote_plus(text) ==
  [k \in DOMAIN text |->
     CASE text[k] = "%2F" -> "/"
       [] text[k] = "%3F" -> "?"
       [] text[k] = "%7C" -> "|"
       [] text[k] = "+" -> " "
       [] OTHER -> text[k]]

\* Login(site, name, path)
Login(site, name, path) == [site |-> site, name |-> name, path |-> path]

\* source.bridgy_path()
bridgy_path(site, id) == <<"/", site, "/", id>>

\* set_logins: the value of the logins cookie for the given logins
set_logins(logins) ==
  Join(SortedTexts({l.path \o <<"?">> \o quote_plus(l.name) : l \in logins}), "|")

\* get_logins: the logins of a logins cookie; ok is FALSE when unpacking
\* an entry raises
get_logins(value) ==
  IF value = <<>> THEN [ok |-> TRUE, logins |-> {}]
  ELSE LET vals == Range(Split(unquote_plus(value), "|"))
           Parts(val) == Split(val, "?")
           Dirs(val) == Split(Strip(Parts(val)[1], "/"), "/")
           Unpacks(val) == Len(Parts(val)) = 2 /\ Len(Dirs(val)) = 2
       IN IF \A val \in vals : Unpacks(val)
          THEN [ok |-> TRUE,
                logins |-> {Login(Dirs(val)[1][1], Parts(val)[2], Parts(val)[1]) : val \in vals}]
          ELSE [ok |-> FALSE, logins |-> {}]

\* -------------------------------------------------------- state parameter
\* JSON null
Null == "null"

\* The text of a state parameter: a JSON object given by its members in
\* the order they are written, a JSON value that is no object, text that
\* is not JSON (the legacy "operation-key" form), or nothing.
JsonObject(pairs) == [kind |-> "object", pairs |-> pairs]
JsonArray == [kind |-> "array", pairs |-> <<>>]
LegacyState == [kind |-> "legacy", pairs |-> <<>>]
NoState == [kind |-> "none", pairs |-> <<>>]

\* decode_state_parameter: the dict (kind "dict"), None for JSON that is no
\* object, or the ValueError json.loads raises
decode_state_parameter(state) ==
  LET pairs == state.pairs
      keys == {pairs[k][1] : k \in DOMAIN pairs}
      Last(key) == CHOOSE k \in DOMAIN pairs :
                     pairs[k][1] = key /\ \A j \in DOMAIN pairs : j > k => pairs[j][1] # key
  IN CASE state.kind = "none" -> [kind |-> "dict", obj |-> <<>>]
       [] state.kind = "object" -> [kind |-> "dict", obj |-> [key \in keys |-> pairs[Last(key)][2]]]
       [] state.kind = "array" -> [kind |-> "None", obj |-> <<>>]
       [] OTHER -> [kind |-> "ValueError", obj |-> <<>>]

\* the keys of state parameters, in sorted order
KeyOrder == <<"callback", "feature", "id", "operation", "source", "user_url", "via">>

\* variant: only None values are dropped
trim_nulls_none_only(obj) ==
  LET kept == {key \in DOMAIN obj : obj[key] # Null}
  IN [key \in kept |-> obj[key]]

\* trim_nulls: the dict without its None and empty values
trim_nulls(obj) ==
  LET kept == {key \in DOMAIN obj : obj[key] \notin {Null, ""}}
  IN [key \in kept |-> obj[key]]

\* encode_state_parameter: json.dumps(trim_nulls(obj), sort_keys=True)
encode_state_parameter(obj) ==
  LET trimmed == trim_nulls(obj)
      Present(key) == key \in DOMAIN trimmed
      keys == SelectSeq(KeyOrder, Present)
  IN JsonObject([k \in DOMAIN keys |-> <<keys[k], trimmed[keys[k]]>>])

\* feature.split(',') if feature else []
feature_split(feature) ==
  CASE feature = "listen" -> {"listen"}
    [] feature = "publish" -> {"publish"}
    [] feature = "listen,publish" -> {"listen", "publish"}
    [] OTHER -> {}

\* bool(value) of a string or None
Truthy(value) == value \notin {Null, ""}

\* state.split('-', 1) yields two parts: the text has a dash
HasDash(state) ==
  \/ state.kind = "legacy"
  \/ \E k \in DOMAIN state.pairs : state.pairs[k][2] = "https://my-site.example/"

\* ------------------------------------------------------- source lifecycle
LifecycleProcs == {"h1"}

\* a Twitter Account: the key id is the username, label_name() is the key id
TwitterAccount(features) == [features |-> features, site |-> "twitter"]

\* the oauth-dropins auth entity of a Twitter user
AliceAuth == [key |-> "auth-alice", user |-> "alice"]

AddState(feature) == JsonObject(<<<<"feature", feature>>, <<"operation", "add">>>>)

\* state parameters: adds for each feature, with a callback, written with
\* keys out of order, an unknown key and a null; deletes, one with a dash
\* in a value; and texts that decode to no dict
AddStates ==
  {AddState("listen"), AddState("publish"), AddState("listen,publish"),
   JsonObject(<<<<"callback", "https://cb.example/">>, <<"feature", "publish">>,
                <<"operation", "add">>>>),
   JsonObject(<<<<"operation", "add">>, <<"via", "web">>, <<"feature", "listen">>,
                <<"callback", Null>>>>),
   NoState}

DeleteStates ==
  {JsonObject(<<<<"operation", "delete">>, <<"feature", "listen">>, <<"source", "alice">>>>),
   JsonObject(<<<<"callback", "https://my-site.example/">>, <<"operation", "delete">>>>)}

AddRequest(auth_entity, state, messages) ==
  [auth_entity |-> auth_entity, state |-> state, messages |-> messages]

\* callbacks of the OAuth flow: approved or declined, for each state; some
\* come with a message the OAuth handler already set
AddRequests ==
  {AddRequest(a, st, {}) :
     a \in {<<>>, AliceAuth}, st \in AddStates \cup DeleteStates \cup {JsonArray, LegacyState}}
  \cup {AddRequest(<<>>, st, {"The OAuth request was cancelled."}) :
          st \in {AddState("listen")} \cup DeleteStates}

BobLogin == Login("twitter", <<"bob">>, bridgy_path("twitter", "bob"))

\* what is stored and cached when a callback arrives: no Account, alice's
\* Account with a feature, a cached listing page, a cookie with a login,
\* and one whose login has a name with a "|" in it
LifecycleSites ==
  {[sources |-> <<>>, cache |-> <<>>, cookie |-> <<>>],
   [sources |-> [a \in {"alice"} |-> TwitterAccount({"listen"})],
    cache |-> [path \in {<<"/", "users">>} |-> [html |-> "old", expires |-> 0]],
    cookie |-> set_logins({BobLogin})],
   [sources |-> [a \in {"alice"} |-> TwitterAccount({"publish"})],
    cache |-> [path \in {<<"/", "users">>} |-> [html |-> "old", expires |-> 0]],
    cookie |-> set_logins({BobLogin, Login("twitter", <<"alice">>, bridgy_path("twitter", "alice"))})],
   [sources |-> [a \in {"alice"} |-> TwitterAccount({"publish"})],
    cache |-> <<>>,
    cookie |-> set_logins({Login("twitter", <<"Al", "|", "bob">>, bridgy_path("twitter", "bob"))})]}

\* a redirect response: the url, the query parameters added to it, and the
\* messages put into its fragment
Redirect(url, params, fragment) == [url |-> url, params |-> params, fragment |-> fragment]

\* the response of a lifecycle handler
Reply(status, redirect, set_cookie, messages) ==
  [status |-> status, redirect |-> redirect, set_cookie |-> set_cookie, messages |-> messages]

NoReply == Reply(200, <<>>, <<>>, {})

InitLifecycle ==
  /\ \E s \in LifecycleSites :
       /\ sources = s.sources
       /\ cache = s.cache
       /\ cookie = s.cookie
  /\ activities = <<>>
  /\ domains = <<>>
  /\ pc = [p \in LifecycleProcs |-> "idle"]
  /\ req = [p \in LifecycleProcs |-> <<>>]
  /\ loaded = [p \in LifecycleProcs |-> <<>>]
  /\ resp = [p \in LifecycleProcs |-> NoReply]
  /\ txn = <<>>
  /\ authz = <<>>
  /\ submitted = 0
  /\ accepted = {}
  /\ liked = {}
  /\ tasks = <<>>
  /\ oauth = {}
  /\ now = 0
  /\ stored = <<>>

\* what the lifecycle handlers leave alone
browser == <<activities, domains, txn, authz, accepted, liked, tasks, now, stored>>

UsersPath == <<"/", "users">>
HomePath == <<"/">>
OAuthUrl == <<"https://api.twitter.com/oauth/authorize">>

\* CachedPage.invalidate(path)
invalidate(pages, path) == [q \in DOMAIN pages \ {path} |-> pages[q]]

\* Handler.redirect(uri): the messages go into the fragment
redirect(uri, params, messages) == Redirect(uri, params, messages)

\* webapp2's redirect(uri): the uri as it is
super_redirect(uri, params) == Redirect(uri, params, {})

\* variant: the listing page is invalidated before the auth entity is
\* looked at
add_declined_invalidating(r, callback, pages) ==
  LET messages == IF r.messages = {}
                  THEN {"OK, you're not signed up. Hope you reconsider!"}
                  ELSE r.messages
  IN [pc |-> "done", cache |-> invalidate(pages, UsersPath),
      reply |-> Reply(302,
                      IF Truthy(callback)
                      THEN super_redirect(<<callback>>, [result |-> "declined"])
                      ELSE redirect(HomePath, <<>>, messages),
                      <<>>, messages)]

\* maybe_add_or_delete_source, operation add without auth entity
add_declined(r, callback, pages) ==
  LET messages == IF r.messages = {}
                  THEN {"OK, you're not signed up. Hope you reconsider!"}
                  ELSE r.messages
  IN [pc |-> "done", cache |-> pages,
      reply |-> Reply(302,
                      IF Truthy(callback)
                      THEN super_redirect(<<callback>>, [result |-> "declined"])
                      ELSE redirect(HomePath, <<>>, messages),
                      <<>>, messages)]

\* redirect_home_or_user_page(state): home when the state has no dash;
\* else the rest of the state is taken for an Account key, and as the rest
\* of a JSON text is none, ndb.Key(urlsafe=...).get() raises or finds
\* nothing
redirect_home_or_user_page(state, messages, raises) ==
  IF HasDash(state) /\ raises THEN Reply(500, <<>>, <<>>, messages)
  ELSE Reply(302, redirect(HomePath, <<>>, messages), <<>>, messages)

\* maybe_add_or_delete_source, operation delete
delete_source(r, pages, raises) ==
  IF r.auth_entity # <<>>
  THEN [pc |-> "done", cache |-> pages,
        reply |-> Reply(302,
                        redirect(<<"/delete/finish">>,
                                 [auth_entity |-> r.auth_entity.key, state |-> r.state],
                                 r.messages),
                        <<>>, r.messages)]
  ELSE [pc |-> "done", cache |-> pages,
        reply |-> redirect_home_or_user_page(
                    r.state,
                    r.messages \cup {"If you want to disable, please approve the prompt."},
                    raises)]

\* maybe_add_or_delete_source up to create_new: where the handler goes on,
\* the page cache and the response so far
maybe_add_or_delete_source(r, pages, raises) ==
  LET d == decode_state_parameter(r.state)
      operation == Get(d.obj, "operation", "add")
      callback == Get(d.obj, "callback", Null)
  IN IF d.kind # "dict"
     THEN [pc |-> "done", cache |-> pages, reply |-> Reply(500, <<>>, <<>>, r.messages)]
     ELSE IF operation = "add"
     THEN IF r.auth_entity = <<>>
          THEN add_declined(r, callback, pages)
          ELSE [pc |-> "create", cache |-> invalidate(pages, UsersPath),
                reply |-> Reply(200, <<>>, <<>>, r.messages)]
     ELSE delete_source(r, pages, raises)

\* AddTwitter.finish up to create_new, for the callback request r
Callback(h, r) ==
  /\ pc[h] = "idle"
  /\ req' = [req EXCEPT ![h] = r]
  /\ \E raises \in BOOLEAN :
       LET m == maybe_add_or_delete_source(r, cache, raises)
       IN /\ pc' = [pc EXCEPT ![h] = m.pc]
          /\ cache' = m.cache
          /\ resp' = [resp EXCEPT ![h] = m.reply]
  /\ UNCHANGED <<sources, cookie, loaded, browser>>

\* a callback of an OAuth flow arrives
AddStart(h) ==
  /\ submitted < MaxAdds
  /\ submitted' = submitted + 1
  /\ \E r \in AddRequests : Callback(h, r)
  /\ UNCHANGED oauth

\* the callback of a flow that the handler restarted arrives, the user
\* having approved or declined: the flow was out, at Twitter, and is back
OAuthCallback(h) ==
  /\ \E f \in oauth, a \in {<<>>, AliceAuth} :
       /\ f.phase = "out"
       /\ Callback(h, AddRequest(a, f.state, {}))
       /\ oauth' = (oauth \ {f}) \cup {[state |-> f.state, phase |-> "back"]}
  /\ UNCHANGED submitted

\* source_cls.create_new(handler, auth_entity=..., features=...): the
\* Account of the auth entity's user is created with the features, or, when
\* it is stored already, gets the features it does not have yet
create_new_from_auth(srcs, user, features) ==
  IF user \in DOMAIN srcs
  THEN [srcs EXCEPT ![user].features = @ \cup features]
  ELSE Put(srcs, user, TwitterAccount(features))

\* variant: only the first of the requested features is passed on
requested_features_first(feature) ==
  IF feature = "listen,publish" THEN {"listen"} ELSE feature_split(feature)

\* the features maybe_add_or_delete_source passes to create_new
requested_features(feature) == feature_split(feature)

\* maybe_add_or_delete_source from create_new on, which returns the
\* Account (created) or None
AddCreate(h) ==
  /\ pc[h] = "create"
  /\ LET r == req[h]
         obj == decode_state_parameter(r.state).obj
         feature == Get(obj, "feature", Null)
         callback == Get(obj, "callback", Null)
         user == r.auth_entity.user
         messages == resp[h].messages
     IN \E created \in BOOLEAN :
          IF created
          THEN LET srcs == create_new_from_auth(sources, user, requested_features(feature))
                   logins == get_logins(cookie)
                   login == Login("twitter", <<user>>, bridgy_path("twitter", user))
               IN /\ sources' = srcs
                  /\ IF ~logins.ok
                     THEN /\ resp' = [resp EXCEPT ![h] = Reply(500, <<>>, <<>>, messages)]
                          /\ pc' = [pc EXCEPT ![h] = "done"]
                          /\ UNCHANGED loaded
                     ELSE /\ resp' = [resp EXCEPT ![h] =
                                    Reply(302,
                                          IF Truthy(callback)
                                          THEN super_redirect(<<callback>>,
                                                 [result |-> "success",
                                                  user |-> bridgy_path("twitter", user),
                                                  key |-> user])
                                          ELSE redirect(bridgy_path("twitter", user), <<>>, messages),
                                          <<set_logins(logins.logins \cup {login})>>,
                                          messages)]
                          /\ loaded' = [loaded EXCEPT ![h] =
                                          [id |-> user, features |-> srcs[user].features]]
                          /\ pc' = [pc EXCEPT ![h] = "finish"]
          ELSE /\ resp' = [resp EXCEPT ![h] =
                             Reply(302,
                                   IF Truthy(callback)
                                   THEN super_redirect(<<callback>>, [result |-> "failure"])
                                   ELSE redirect(HomePath, <<>>, messages),
                                   <<>>, messages)]
               /\ pc' = [pc EXCEPT ![h] = "finish"]
               /\ UNCHANGED <<sources, loaded>>
  /\ UNCHANGED <<req, cache, cookie, oauth, submitted, browser>>

\* variant: the feature passed in is not put into the state
construct_state_param_for_add_as_is(state, feature) ==
  LET decoded == decode_state_parameter(state).obj
      state_obj == IF decoded = <<>>
                   THEN [field \in {"callback", "feature", "id", "user_url", "operation"} |->
                           IF field = "operation" THEN "add" ELSE ""]
                   ELSE decoded
  IN encode_state_parameter(state_obj)

\* construct_state_param_for_add(state, feature=feature)
construct_state_param_for_add(state, feature) ==
  LET decoded == decode_state_parameter(state).obj
      state_obj == IF decoded = <<>>
                   THEN [field \in {"callback", "feature", "id", "user_url", "operation"} |->
                           IF field = "operation" THEN "add" ELSE ""]
                   ELSE decoded
  IN encode_state_parameter(Put(state_obj, "feature", feature))

\* variant: read access is requested whatever the feature
start_oauth_flow_read(feature, state) ==
  super_redirect(OAuthUrl,
                 [state |-> construct_state_param_for_add(state, feature),
                  access_type |-> "read"])

\* start_oauth_flow(feature): the redirect to Twitter's OAuth endpoint
start_oauth_flow(feature, state) ==
  super_redirect(OAuthUrl,
                 [state |-> construct_state_param_for_add(state, feature),
                  access_type |-> IF "publish" \in feature_split(feature)
                                  THEN "write" ELSE "read"])

\* AddTwitter.finish after maybe_add_or_delete_source has returned
TwitterFinish(h) ==
  /\ pc[h] = "finish"
  /\ LET source == loaded[h]
         feature == Get(decode_state_parameter(req[h].state).obj, "feature", Null)
     IN IF source # <<>> /\ feature = "listen" /\ "publish" \in source.features
        THEN /\ sources' = Put(sources, source.id,
                               TwitterAccount(source.features \ {"publish"}))
             /\ resp' = [resp EXCEPT ![h].redirect = start_oauth_flow("publish", req[h].state)]
        ELSE UNCHANGED <<sources, resp>>
  /\ pc' = [pc EXCEPT ![h] = "done"]
  /\ UNCHANGED <<req, loaded, cache, cookie, oauth, submitted, browser>>

\* the response reaches the browser: it keeps the cookie that was set and
\* follows a redirect to the OAuth endpoint
Respond(h) ==
  /\ pc[h] = "done"
  /\ cookie' = IF resp[h].set_cookie # <<>> THEN resp[h].set_cookie[1] ELSE cookie
  /\ oauth' = {f \in oauth : f.phase = "out"}
              \cup IF resp[h].redirect # <<>> /\ resp[h].redirect.url = OAuthUrl
                   THEN {[state |-> resp[h].redirect.params.state, phase |-> "out"]}
                   ELSE {}
  /\ pc' = [pc EXCEPT ![h] = "idle"]
  /\ req' = [req EXCEPT ![h] = <<>>]
  /\ loaded' = [loaded EXCEPT ![h] = <<>>]
  /\ resp' = [resp EXCEPT ![h] = NoReply]
  /\ UNCHANGED <<sources, cache, submitted, browser>>

\* the Twitter add callback, serving request after request
NextLifecycle ==
  \/ \E h \in LifecycleProcs : AddStart(h)
  \/ \E h \in LifecycleProcs : OAuthCallback(h)
  \/ \E h \in LifecycleProcs : AddCreate(h)
  \/ \E h \in LifecycleProcs : TwitterFinish(h)
  \/ \E h \in LifecycleProcs : Respond(h)

SpecLifecycle == InitLifecycle /\ [][NextLifecycle]_vars

\* ------------------------------------------------------------ properties
StoredBody ==
  IF ActivityId \in DOMAIN activities THEN activities[ActivityId].activity_json ELSE <<>>

StoredReplyIds == Ids(ReplyItems(StoredBody))

StoredLikeIds == Ids(Tags(StoredBody))

\* the step in which post handler p's transaction commits
PostCommits(p) == pc[p] = "commit" /\ pc'[p] = "done" /\ resp'[p].status = 200

\* the step commits onto an Activity that is already stored
PostMerges(p) == PostCommits(p) /\ ActivityId \in DOMAIN activities

Completed(p) == pc[p] = "done" /\ resp[p].status = 200

Ascending(items) == \A j, k \in DOMAIN items : j < k => items[j].id < items[k].id

\* the Account auth resolves for a request
Owner(r) == IF r.key # "" THEN r.key
            ELSE IF r.username # "" THEN r.username ELSE r.actor.username

\* C1: with concurrent post submissions only, the stored replies hold every
\* reply id any stored submission carried: each completed submission's ids
\* and all ids stored by earlier submissions.
C1_NoLostUpdate ==
  /\ accepted \subseteq StoredReplyIds
  /\ \A p \in PostProcs :
       Completed(p) => Ids(ReplyItems(req[p].new_activity)) \subseteq StoredReplyIds

\* two submissions with different replies have both completed, one of them
\* after its transaction was retried
C1_Witness ==
  \E p, q \in PostProcs :
    /\ p # q /\ Completed(p) /\ Completed(q)
    /\ txn[p].retries > 0
    /\ Ids(ReplyItems(req[p].new_activity)) = {1}
    /\ Ids(ReplyItems(req[q].new_activity)) = {2}

\* C2: when likes submissions race with post submissions, no reply stored
\* by a post submission is lost from the stored body.
C2_LikesAtomic == accepted \subseteq StoredReplyIds

\* C3: after accepted post submissions the Activity is stored, its replies
\* have distinct ids, and no step removes a reply id from it.
C3_RepliesNeverShrink ==
  [][/\ StoredReplyIds \subseteq StoredReplyIds'
     /\ accepted' \subseteq StoredReplyIds'
     /\ DistinctIds(ReplyItems(StoredBody'))
     /\ \A p \in PostProcs : PostCommits(p) => ActivityId \in DOMAIN activities']_vars

\* a later submission has completed that did not carry a reply stored before
C3_Witness ==
  /\ Completed("p1")
  /\ \E i \in StoredReplyIds : i \notin Ids(ReplyItems(req["p1"].new_activity))
  /\ ReplyItems(req["p1"].new_activity) # <<>>

\* C4: when the stored and the incoming activity have a reply with the same
\* id and different content, the stored body afterwards has one reply with
\* that id, carrying the incoming content, and the same totalItems.
C4_IncomingWins ==
  [][\A p \in PostProcs : PostMerges(p) =>
       LET old == ReplyItems(StoredBody)
           new == ReplyItems(req[p].new_activity)
           items == ReplyItems(StoredBody')
       IN \A j \in DOMAIN old, k \in DOMAIN new :
            (old[j].id = new[k].id /\ old[j].content # new[k].content) =>
              /\ Cardinality({m \in DOMAIN items : items[m].id = new[k].id}) = 1
              /\ \A m \in DOMAIN items :
                   items[m].id = new[k].id => items[m].content = new[k].content
              /\ Ids(old) = Ids(new) =>
                   StoredBody'.object.replies.totalItems = Len(old)]_vars

\* C5: a post submission never removes a like id from the stored body.
C5_LikesNeverShrink ==
  [][\A p \in PostProcs : PostCommits(p) => StoredLikeIds \subseteq StoredLikeIds']_vars

\* C6: when the stored and the incoming activity have a reply with the same
\* id, every field of the stored reply is a field of the merged reply.
C6_FieldsKept ==
  [][\A p \in PostProcs : PostMerges(p) =>
       LET old == ReplyItems(StoredBody)
           new == ReplyItems(req[p].new_activity)
           items == ReplyItems(StoredBody')
       IN \A j \in DOMAIN old :
            old[j].id \in Ids(new) =>
              \E m \in DOMAIN items :
                items[m].id = old[j].id /\ DOMAIN old[j] \subseteq DOMAIN items[m]]_vars

\* the transaction is about to commit a merge where the stored reply has a
\* url and the incoming reply with the same id has none
C6_Witness ==
  /\ pc["p1"] = "commit"
  /\ \E j \in DOMAIN ReplyItems(StoredBody) :
       \E k \in DOMAIN ReplyItems(req["p1"].new_activity) :
         /\ ReplyItems(StoredBody)[j].id = ReplyItems(req["p1"].new_activity)[k].id
         /\ "url" \in DOMAIN ReplyItems(StoredBody)[j]
         /\ "url" \notin DOMAIN ReplyItems(req["p1"].new_activity)[k]

\* C7: a merge stores replies whose ids are the union of the stored and the
\* incoming reply ids, in ascending id order, with totalItems their number.
C7_UnionSortedCounted ==
  [][\A p \in PostProcs : PostMerges(p) =>
       LET items == ReplyItems(StoredBody')
       IN /\ Ids(items) = StoredReplyIds \cup Ids(ReplyItems(req[p].new_activity))
          /\ Ascending(items)
          /\ StoredBody'.object.replies.totalItems = Len(items)]_vars

\* the transaction is about to commit a merge whose stored and incoming
\* replies each have an id the other lacks
C7_Witness ==
  /\ pc["p1"] = "commit"
  /\ StoredReplyIds \ Ids(ReplyItems(req["p1"].new_activity)) # {}
  /\ Ids(ReplyItems(req["p1"].new_activity)) \ StoredReplyIds # {}

\* an activity with a replies collection in strictly ascending id order
\* whose totalItems is the number of its items
Normalized(a) ==
  /\ "object" \in DOMAIN a
  /\ "replies" \in DOMAIN a.object
  /\ DOMAIN a.object.replies = {"items", "totalItems"}
  /\ Ascending(a.object.replies.items)
  /\ a.object.replies.totalItems = Len(a.object.replies.items)

\* C8: submitting A when the stored body is A leaves the stored body A.
C8_Idempotent ==
  [][\A p \in PostProcs :
       (PostMerges(p) /\ StoredBody = req[p].new_activity) =>
         StoredBody' = req[p].new_activity]_vars

\* C8 amended: for A with a replies collection in ascending id order and
\* totalItems equal to the number of items, submitting A when the stored
\* body is A leaves the stored body A.
C8_IdempotentNormalized ==
  [][\A p \in PostProcs :
       (PostMerges(p) /\ StoredBody = req[p].new_activity /\ Normalized(StoredBody)) =>
         StoredBody' = req[p].new_activity]_vars

\* the stored activity, with two replies, has been submitted again and stored
C8_Witness ==
  /\ Completed("p1")
  /\ submitted > 1
  /\ StoredBody = req["p1"].new_activity
  /\ Normalized(StoredBody)
  /\ Len(ReplyItems(StoredBody)) = 2

\* C9: when no Activity is stored under the id, a post submission stores
\* the incoming body unchanged, owned by the Account auth returned.
C9_AbsentStoresIncoming ==
  [][\A p \in PostProcs :
       (PostCommits(p) /\ ActivityId \notin DOMAIN activities) =>
         /\ ActivityId \in DOMAIN activities'
         /\ activities'[ActivityId].activity_json = req[p].new_activity
         /\ activities'[ActivityId].source = Owner(req[p])]_vars

\* bob's first submission, by key, has been stored as it came
C9_Witness ==
  /\ Completed("p1")
  /\ submitted = 1
  /\ req["p1"].key = "bob"
  /\ activities[ActivityId] = [source |-> "bob", activity_json |-> req["p1"].new_activity]

\* C10: after a submission for an id that has a stored Activity, the body
\* returned to the caller is the body that was stored.
C10_ResponseIsMerged ==
  [][\A p \in PostProcs : PostMerges(p) => resp'[p].body = <<StoredBody'>>]_vars

\* C10 amended: the response of the post endpoint is the submitted activity:
\* every body written to it equals the incoming activity, also when the
\* stored body has replies the submission did not carry.
C10_ResponseIsIncoming ==
  [][\A p \in PostProcs : PostCommits(p) =>
       /\ resp'[p].body # <<>>
       /\ \A k \in DOMAIN resp'[p].body : resp'[p].body[k] = req[p].new_activity]_vars

\* a submission has completed on a stored Activity whose replies it did not
\* all carry
C10_Witness ==
  \E p \in PostProcs :
    /\ Completed(p)
    /\ StoredReplyIds \ Ids(ReplyItems(req[p].new_activity)) # {}
    /\ txn[p].put = activities[ActivityId]

\* a scraped activity that has no id
NoId(r) == r.new_activity # <<>> /\ Get(r.new_activity, "id", "") = ""

\* C11: an authorized post submission whose scraped activity has no id ends
\* with status 400 and an empty response, and leaves the Activity store as
\* it was; every step that changes the Activity store is the commit of a
\* submission that has an id, and it creates the Activity with the incoming
\* body or replaces the stored body by the whole merge.
C11_MissingIdRejected ==
  [][/\ \A p \in PostProcs :
          (pc[p] = "txn" /\ NoId(req[p])) =>
            /\ pc'[p] = "done"
            /\ resp'[p] = [status |-> 400, body |-> <<>>]
            /\ activities' = activities
     /\ \A p \in PostProcs : (pc'[p] = "done" /\ NoId(req'[p])) => activities' = activities
     /\ DOMAIN activities \subseteq DOMAIN activities'
     /\ \A id \in DOMAIN activities' :
          \/ id \in DOMAIN activities /\ activities'[id] = activities[id]
          \/ \E p \in PostProcs :
               /\ PostCommits(p)
               /\ Get(req[p].new_activity, "id", "") = id
               /\ id # ""
               /\ activities'[id].activity_json =
                    IF id \in DOMAIN activities
                    THEN merged_activity(req[p].new_activity, activities[id].activity_json)
                    ELSE req[p].new_activity]_vars

\* an authorized submission without an id was turned down with 400 while
\* an Activity with replies is stored
C11_Witness ==
  /\ pc["p1"] = "done"
  /\ NoId(req["p1"])
  /\ authz["p1"].out.status = 200
  /\ resp["p1"].status = 400
  /\ StoredReplyIds # {}

\* ---------------------------------------------------------- authorization
\* the calls of fn that handlers have made and not yet answered for
Calls(fn) == {p \in DOMAIN authz : authz[p] # <<>> /\ authz[p].fn = fn}

\* the handler that made the call was turned down with the call's status
Rejected(p) == pc[p] = "done" /\ resp[p].status = authz[p].out.status /\ resp[p].body = <<>>

\* the hostnames of the actor's declared urls, united with the stored
\* domains of every Account whose url is the actor's url, without the
\* network's own domain
Candidates(c) ==
  LET hostnames == {domain_from_link(u) : u \in object_urls(c.actor)}
      accounts == {a \in DOMAIN c.srcs :
                     "url" \in DOMAIN c.actor /\ c.srcs[a].url = c.actor.url}
  IN (hostnames \cup UNION {c.srcs[a].domains : a \in accounts}) \ {SiloDomain}

\* some Domain record of the given domains has the call's token
Registered(c, ds) == \E d \in ds : d \in DOMAIN c.doms /\ c.token \in c.doms[d]

C13_PrivateAlwaysFails ==
  \A p \in Calls("check_token_for_actor") :
    ~is_public(authz[p].actor) =>
      /\ authz[p].out = Outcome(400, "", "account is private", {})
      /\ Rejected(p)

\* a private actor was turned down on a request without a token
C13_Witness ==
  /\ authz["f1"] # <<>>
  /\ authz["f1"].actor = PrivateActor
  /\ authz["f1"].token = ""
  /\ Rejected("f1")

\* the Account the request names: by key when there is one, else by
\* username, else by the scraped actor's username; "" when none is stored
Named(c) ==
  LET name == IF c.username # "" THEN c.username ELSE Get(c.actor, "username", "")
      id == IF c.key # "" THEN c.key ELSE name
  IN IF id \in DOMAIN c.srcs THEN id ELSE ""

\* the call denies authorization: the actor is not public, or the request's
\* token matches none of the domains the call checks
Denies(c) ==
  IF c.fn = "check_token_for_actor"
  THEN ~is_public(c.actor) \/ (c.token # "" /\ ~Registered(c, Candidates(c)))
  ELSE /\ c.check_token
       /\ c.token # ""
       /\ Named(c) # ""
       /\ ~Registered(c, c.srcs[Named(c)].domains)

\* C14: every denial of authorization, for a private actor or for a token
\* that matches no domain, ends the request with status 403.
C14_DenialIs403 ==
  \A p \in DOMAIN authz :
    (authz[p] # <<>> /\ Denies(authz[p])) => authz[p].out.status = 403 /\ resp[p].status = 403

\* the token is registered, and only for the network's own domain
SiloOnly(c) ==
  /\ SiloDomain \in DOMAIN c.doms
  /\ \A d \in DOMAIN c.doms : c.token \in c.doms[d] <=> d = SiloDomain

\* C15: check_token_for_actor never returns for a token that is registered
\* only for the network's own domain.
C15_SiloDomainNeverGrants ==
  \A p \in Calls("check_token_for_actor") :
    SiloOnly(authz[p]) => authz[p].out.status = 403 /\ Rejected(p)

\* a token of the network's own domain was turned down for an actor whose
\* Account, found by the actor's url, has that domain among its stored ones
C15_Witness ==
  /\ authz["f1"] # <<>>
  /\ SiloOnly(authz["f1"])
  /\ Rejected("f1")
  /\ authz["f1"].actor = BareActor
  /\ "alice" \in DOMAIN authz["f1"].srcs
  /\ SiloDomain \in authz["f1"].srcs["alice"].domains

\* what a call of auth comes to: 400 without key, username and actor
\* username, 404 when no Account is stored under the name, the Account
\* when the token is not checked, and with a token the Account if a Domain
\* that has the token is among the Account's stored domains, else 403
AuthAnswers(c) ==
  LET name == IF c.username # "" THEN c.username ELSE Get(c.actor, "username", "")
      a == Named(c)
  IN IF c.key = "" /\ name = "" THEN c.out.status = 400 /\ c.out.source = ""
     ELSE IF a = "" THEN c.out.status = 404 /\ c.out.source = ""
     ELSE IF ~c.check_token THEN c.out.status = 200 /\ c.out.source = a
     ELSE c.token # "" =>
            IF \E d \in DOMAIN c.doms : c.token \in c.doms[d] /\ d \in c.srcs[a].domains
            THEN c.out.status = 200 /\ c.out.source = a
            ELSE c.out.status = 403 /\ c.out.source = ""

SameCall(c, d) ==
  \A f \in {"fn", "actor", "token", "key", "username", "check_token", "srcs", "doms"} :
    c[f] = d[f]

\* C17: a step in which check_token_for_actor or auth is called leaves the
\* Account, Domain and Activity stores as they were, whether the call
\* returns or fails; two calls with the same arguments over the same stores
\* have the same outcome and reject or admit their requests alike.
C17_AuthorizationIsPure ==
  [][/\ \A p \in AuthProcs :
          (authz'[p] # <<>> /\ authz'[p] # authz[p]) =>
            /\ sources' = sources
            /\ domains' = domains
            /\ activities' = activities
            /\ authz'[p].srcs = sources' /\ authz'[p].doms = domains'
     /\ \A p, q \in AuthProcs :
          (authz'[p] # <<>> /\ authz'[q] # <<>> /\ SameCall(authz'[p], authz'[q])) =>
            /\ authz'[p].out = authz'[q].out
            /\ Rejected(p)' <=> Rejected(q)']_vars

\* two post handlers called auth with the same arguments over the same
\* stores and both were turned down for the token
C17_Witness ==
  /\ authz["p1"] # <<>>
  /\ authz["p1"] = authz["p2"]
  /\ authz["p1"].out.status = 403
  /\ Rejected("p1") /\ Rejected("p2")

\* ------------------------------------------------------------- lifecycle
\* the operation, feature and callback of a request's state parameter
StateOf(r) == decode_state_parameter(r.state)

OperationOf(r) == Get(StateOf(r).obj, "operation", "add")

\* an add callback whose user declined
DeclinedAdd(r) ==
  r # <<>> /\ StateOf(r).kind = "dict" /\ OperationOf(r) = "add" /\ r.auth_entity = <<>>

\* no Account, cached page or cookie changes in the step
SiteUnchanged == sources' = sources /\ cache' = cache /\ cookie' = cookie

\* C18: a declined add creates or updates no Account, leaves the page
\* cache and the logins cookie alone, and answers with a message and a
\* redirect: to the callback with result=declined when the state has one,
\* else to the home page.
C18_DeclinedAddMutatesNothing ==
  [][\A h \in LifecycleProcs :
       /\ (DeclinedAdd(req[h]) \/ DeclinedAdd(req'[h])) => SiteUnchanged
       /\ (pc[h] = "idle" /\ DeclinedAdd(req'[h])) =>
            LET callback == Get(StateOf(req'[h]).obj, "callback", Null)
            IN /\ pc'[h] = "done"
               /\ resp'[h].status = 302
               /\ resp'[h].set_cookie = <<>>
               /\ resp'[h].messages # {}
               /\ req'[h].messages \subseteq resp'[h].messages
               /\ resp'[h].redirect =
                    IF callback \notin {Null, ""}
                    THEN Redirect(<<callback>>, [result |-> "declined"], {})
                    ELSE Redirect(HomePath, <<>>, resp'[h].messages)]_vars

\* a declined add with a callback was answered while a listing page is
\* cached and the browser has a logins cookie
C18_Witness ==
  /\ pc["h1"] = "done"
  /\ DeclinedAdd(req["h1"])
  /\ resp["h1"].redirect.params = [result |-> "declined"]
  /\ UsersPath \in DOMAIN cache
  /\ cookie # <<>>
  /\ "alice" \in DOMAIN sources

\* the features the Account of the request's user holds
Held(srcs, r) ==
  IF r.auth_entity # <<>> /\ r.auth_entity.user \in DOMAIN srcs
  THEN srcs[r.auth_entity.user].features ELSE {}

\* the features the request's state asks for
Requested(r) == feature_split(Get(StateOf(r).obj, "feature", Null))

\* C19: when an add callback has completed, the Account's features contain
\* every feature it held before a step of the callback and every feature
\* the state asked for.
C19_AddKeepsFeatures ==
  [][\A h \in LifecycleProcs :
       /\ pc[h] \in {"create", "finish"} => Held(sources, req[h]) \subseteq Held(sources', req[h])
       /\ (pc[h] = "finish" /\ loaded[h] # <<>>) =>
            Requested(req[h]) \subseteq Held(sources', req[h])]_vars

\* the Twitter callback asked for listen alone on an Account that holds
\* publish
ListenOverPublish(h) ==
  /\ loaded[h] # <<>>
  /\ Get(StateOf(req[h]).obj, "feature", Null) = "listen"
  /\ "publish" \in loaded[h].features

\* C19 amended: maybe_add_or_delete_source, when it returns an Account,
\* leaves it with every feature it held and every feature the state asked
\* for; AddTwitter.finish afterwards removes nothing but publish, and that
\* only when the state asked for listen alone and the Account holds
\* publish, in which case it redirects to the OAuth endpoint for publish.
C19_AddKeepsFeaturesButPublish ==
  [][\A h \in LifecycleProcs :
       /\ (pc[h] = "create" /\ pc'[h] = "finish" /\ loaded'[h] # <<>>) =>
            /\ Held(sources', req[h]) = Held(sources, req[h]) \cup Requested(req[h])
            /\ loaded'[h].features = Held(sources', req[h])
       /\ pc[h] = "create" => Held(sources, req[h]) \subseteq Held(sources', req[h])
       /\ pc[h] = "finish" =>
            IF ListenOverPublish(h)
            THEN /\ Held(sources', req[h]) = Held(sources, req[h]) \ {"publish"}
                 /\ resp'[h].redirect.url = OAuthUrl
                 /\ Requested([req[h] EXCEPT !.state = resp'[h].redirect.params.state])
                      = {"publish"}
            ELSE sources' = sources]_vars

\* the callback for listen has completed on an Account that held publish:
\* the Account is left with listen, the response goes to the OAuth endpoint
C19_Witness ==
  /\ pc["h1"] = "done"
  /\ ListenOverPublish("h1")
  /\ sources["alice"].features = {"listen"}
  /\ resp["h1"].redirect.url = OAuthUrl

\* a callback whose state says delete
DeleteRequest(r) == r # <<>> /\ StateOf(r).kind = "dict" /\ OperationOf(r) = "delete"

\* C20: a delete callback changes no Account, cached page or cookie; with
\* an auth entity it redirects to /delete/finish with the auth entity's key
\* and the state as it came; without one it sets a message and redirects
\* to the home page or the Account's page.
C20_DeleteOnlyRedirects ==
  [][\A h \in LifecycleProcs :
       /\ (DeleteRequest(req[h]) \/ DeleteRequest(req'[h])) => SiteUnchanged
       /\ (pc[h] = "idle" /\ DeleteRequest(req'[h])) =>
            /\ pc'[h] = "done"
            /\ resp'[h].set_cookie = <<>>
            /\ resp'[h].status = 302
            /\ IF req'[h].auth_entity # <<>>
               THEN /\ resp'[h].redirect.url = <<"/delete/finish">>
                    /\ resp'[h].redirect.params =
                         [auth_entity |-> req'[h].auth_entity.key, state |-> req'[h].state]
                    /\ resp'[h].messages = req'[h].messages
               ELSE /\ resp'[h].messages # {}
                    /\ \/ resp'[h].redirect.url = HomePath
                       \/ \E a \in DOMAIN sources :
                            resp'[h].redirect.url = bridgy_path("twitter", a)]_vars

\* the response restarts the OAuth flow
Restarts(reply) == reply.redirect # <<>> /\ reply.redirect.url = OAuthUrl

\* C21: when AddTwitter.finish gets an Account that holds publish from an
\* add for listen alone, it stores the Account without publish and
\* redirects to the OAuth endpoint for publish with write access; in every
\* other case no step of the callback removes a feature or restarts the
\* flow.
C21_ListenAfterPublish ==
  [][\A h \in LifecycleProcs :
       IF pc[h] = "finish" /\ ListenOverPublish(h)
       THEN /\ sources' = [sources EXCEPT ![loaded[h].id].features =
                             loaded[h].features \ {"publish"}]
            /\ Restarts(resp'[h])
            /\ resp'[h].redirect.params.access_type = "write"
            /\ Requested([req[h] EXCEPT !.state = resp'[h].redirect.params.state])
                 = {"publish"}
            /\ OperationOf([req[h] EXCEPT !.state = resp'[h].redirect.params.state]) = "add"
       ELSE /\ \A a \in DOMAIN sources :
                 a \in DOMAIN sources' /\ sources[a].features \subseteq sources'[a].features
            /\ pc'[h] # "idle" => ~Restarts(resp'[h])]_vars

\* the flow was restarted with write access for publish, the Account
\* stored with listen alone
C21_Witness ==
  /\ pc["h1"] = "done"
  /\ ListenOverPublish("h1")
  /\ Restarts(resp["h1"])
  /\ resp["h1"].redirect.params.access_type = "write"
  /\ "publish" \notin sources["alice"].features
  /\ "listen" \in sources["alice"].features

\* ------------------------------------------------- state round trip
\* One state dict goes through encode_state_parameter, travels as text,
\* where another JSON writer may put its members in any order, and comes
\* back through decode_state_parameter and once more through
\* encode_state_parameter.
StateProcs == {"s1"}

\* the dicts handed to encode_state_parameter, drawn over the first keys
\* of a list: via is a key Bridgy does not know
InitState ==
  /\ pc = [p \in StateProcs |-> "dict"]
  /\ LET StateKeys == <<"operation", "via", "callback", "feature">>
         StateValues == {Null, "", "add", "https://cb.example/"}
     IN \E keys \in SUBSET {StateKeys[k] : k \in 1..MaxKeys} :
          \E d \in [keys -> StateValues] :
            req = [p \in StateProcs |-> [obj |-> d, state |-> NoState]]
  /\ resp = [p \in StateProcs |-> NoState]
  /\ loaded = [p \in StateProcs |-> [kind |-> "None", obj |-> <<>>, state |-> NoState]]
  /\ activities = <<>>
  /\ sources = <<>>
  /\ domains = <<>>
  /\ txn = <<>>
  /\ authz = <<>>
  /\ submitted = 0
  /\ accepted = {}
  /\ liked = {}
  /\ InitSite

\* encode_state_parameter(obj): the text is sent off
Encode(p) ==
  /\ pc[p] = "dict"
  /\ LET state == encode_state_parameter(req[p].obj)
     IN /\ req' = [req EXCEPT ![p].state = state]
        /\ resp' = [resp EXCEPT ![p] = state]
  /\ pc' = [pc EXCEPT ![p] = "text"]
  /\ UNCHANGED <<activities, sources, domains, txn, loaded, submitted, accepted, liked,
                 authz, tasks, lifecycle>>

\* the text comes back, the same JSON object with its members written in
\* another order
Reorder(p) ==
  /\ pc[p] = "text"
  /\ LET n == Len(resp[p].pairs)
         Orders == {f \in [1..n -> 1..n] : \A a, b \in 1..n : f[a] = f[b] => a = b}
     IN \E f \in Orders :
          LET state == JsonObject([k \in 1..n |-> resp[p].pairs[f[k]]])
          IN /\ state # resp[p]
             /\ resp' = [resp EXCEPT ![p] = state]
  /\ pc' = [pc EXCEPT ![p] = "reordered"]
  /\ UNCHANGED <<activities, sources, domains, txn, req, loaded, submitted, accepted, liked,
                 authz, tasks, lifecycle>>

\* decode_state_parameter(state)
Decode(p) ==
  /\ pc[p] \in {"text", "reordered"}
  /\ LET d == decode_state_parameter(resp[p])
     IN loaded' = [loaded EXCEPT ![p] = [kind |-> d.kind, obj |-> d.obj, state |-> NoState]]
  /\ pc' = [pc EXCEPT ![p] = "decoded"]
  /\ UNCHANGED <<activities, sources, domains, txn, req, resp, submitted, accepted, liked,
                 authz, tasks, lifecycle>>

\* encode_state_parameter of the decoded dict
Reencode(p) ==
  /\ pc[p] = "decoded"
  /\ loaded' = [loaded EXCEPT ![p].state = encode_state_parameter(loaded[p].obj)]
  /\ pc' = [pc EXCEPT ![p] = "encoded"]
  /\ UNCHANGED <<activities, sources, domains, txn, req, resp, submitted, accepted, liked,
                 authz, tasks, lifecycle>>

\* a state parameter is encoded, sent off, and decoded when it comes back
SpecState ==
  InitState /\ [][\/ \E p \in StateProcs : Encode(p)
                  \/ \E p \in StateProcs : Reorder(p)
                  \/ \E p \in StateProcs : Decode(p)
                  \/ \E p \in StateProcs : Reencode(p)]_vars

\* where a key stands in sorted order
KeyRank(key) == CHOOSE k \in DOMAIN KeyOrder : KeyOrder[k] = key

\* the dict without the keys whose value is one of the given values
Without(obj, values) ==
  [key \in {k \in DOMAIN obj : obj[k] \notin values} |-> obj[key]]

\* C22: the decoded dict is the encoded dict without its null-valued
\* keys, whatever order the text's members came back in, and encoding it
\* again gives the text that was sent.
C22_StateRoundTrips ==
  \A p \in StateProcs :
    /\ pc[p] \in {"decoded", "encoded"} =>
         /\ loaded[p].kind = "dict"
         /\ loaded[p].obj = Without(req[p].obj, {Null})
    /\ pc[p] = "encoded" => loaded[p].state = req[p].state

\* C22 amended: the decoded dict is the encoded dict without the keys
\* whose value is None or empty, every other key kept with its value,
\* whatever order the text's members came back in; encoding it again gives
\* the text that was sent, whose members are in sorted key order.
C22_StateRoundTripsTrimmed ==
  \A p \in StateProcs :
    /\ pc[p] \in {"decoded", "encoded"} =>
         /\ loaded[p].kind = "dict"
         /\ loaded[p].obj = Without(req[p].obj, {Null, ""})
    /\ pc[p] = "encoded" =>
         /\ loaded[p].state = req[p].state
         /\ \A j, k \in DOMAIN loaded[p].state.pairs :
              j < k => KeyRank(loaded[p].state.pairs[j][1]) < KeyRank(loaded[p].state.pairs[k][1])

\* a dict with a null, an empty value and the unknown key went round, its
\* text reordered on the way
C22_Witness ==
  /\ pc["s1"] = "encoded"
  /\ req["s1"].obj = [operation |-> "add", via |-> "https://cb.example/", callback |-> ""]
  /\ resp["s1"] # req["s1"].state
  /\ "via" \in DOMAIN loaded["s1"].obj

\* ----------------------------------------------------------- logins cookie
\* the logins set_logins wrote into a cookie value: its entries are
\* joined with "|", each is path?quote_plus(name)
Entries(value) ==
  IF value = <<>> THEN {}
  ELSE {LET parts == Split(val, "?")
            dirs == Split(Strip(parts[1], "/"), "/")
        IN Login(dirs[1][1], unquote_plus(parts[2]), parts[1]) :
          val \in Range(Split(value, "|"))}

\* the step in which create_new returned an Account to handler h
YieldsAccount(h) ==
  /\ pc[h] = "create"
  /\ pc'[h] # "create"
  /\ ~(pc'[h] = "finish" /\ loaded'[h] = <<>>)

\* C23: when an authorized add yields an Account, a logins cookie is
\* written from which get_logins reads the Account's login and every login
\* of the incoming cookie, each once, whatever the names are.
C23_LoginsCookieKeepsEntries ==
  [][\A h \in LifecycleProcs :
       YieldsAccount(h) =>
         LET user == req[h].auth_entity.user
             login == Login("twitter", <<user>>, bridgy_path("twitter", user))
         IN /\ resp'[h].set_cookie # <<>>
            /\ LET written == resp'[h].set_cookie[1]
               IN /\ get_logins(written).ok
                  /\ get_logins(written).logins = Entries(cookie) \cup {login}
                  /\ Len(Split(written, "|")) = Cardinality(Entries(cookie) \cup {login})]_vars

\* -------------------------------------------------------------- page cache
\* CachedPage entities are [html, expires]; an entity without expiry has
\* expires = NoExpiry, as has a store call without expires.
NoExpiry == -1

CachePaths == {UsersPath, HomePath}

\* what load returns when it returns None
Absent == [found |-> FALSE, html |-> ""]

\* the operation a cache client runs
CacheOp(op, path) == [op |-> op, path |-> path]

InitClients(procs) ==
  /\ pc = [p \in procs |-> "idle"]
  /\ req = [p \in procs |-> CacheOp("", <<>>)]
  /\ resp = [p \in procs |-> Absent]
  /\ loaded = [p \in procs |-> <<>>]
  /\ activities = <<>>
  /\ sources = <<>>
  /\ domains = <<>>
  /\ txn = <<>>
  /\ authz = <<>>
  /\ submitted = 0
  /\ accepted = {}
  /\ liked = {}
  /\ InitSite

\* variant: an entry is taken for expired from its expiry time on
expired_from(cached, t) == cached.expires # NoExpiry /\ t >= cached.expires

\* cached.expires and now_fn() > cached.expires
expired(cached, t) == cached.expires # NoExpiry /\ t > cached.expires

\* CachedPage.store(path, html, expires)
store(pages, path, html, ttl, t) ==
  Put(pages, path, [html |-> html,
                    expires |-> IF ttl # NoExpiry THEN t + ttl ELSE NoExpiry])

\* CachedPage.store called by client p
Store(p, paths) ==
  /\ pc[p] = "idle"
  /\ \E path \in paths, html \in {"old", "new"}, ttl \in {NoExpiry} \cup 0..MaxTtl :
       /\ cache' = store(cache, path, html, ttl, now)
       /\ stored' = Put(stored, path, [html |-> html, at |-> now, ttl |-> ttl])
       /\ req' = [req EXCEPT ![p] = CacheOp("store", path)]
  /\ UNCHANGED <<activities, sources, domains, txn, pc, resp, loaded, submitted, accepted,
                 liked, authz, tasks, cookie, oauth, now>>

\* CachedPage.invalidate called by client p
Invalidate(p, paths) ==
  /\ pc[p] = "idle"
  /\ \E path \in paths :
       /\ cache' = invalidate(cache, path)
       /\ stored' = invalidate(stored, path)
       /\ req' = [req EXCEPT ![p] = CacheOp("invalidate", path)]
  /\ UNCHANGED <<activities, sources, domains, txn, pc, resp, loaded, submitted, accepted,
                 liked, authz, tasks, cookie, oauth, now>>

\* CachedPage.load up to its return or its delete: get_by_id and the
\* comparison with the clock
LoadRead(p, paths) ==
  /\ pc[p] = "idle"
  /\ \E path \in paths :
       /\ req' = [req EXCEPT ![p] = CacheOp("load", path)]
       /\ IF path \in DOMAIN cache
          THEN /\ loaded' = [loaded EXCEPT ![p] = cache[path]]
               /\ IF expired(cache[path], now)
                  THEN /\ pc' = [pc EXCEPT ![p] = "delete"]
                       /\ resp' = [resp EXCEPT ![p] = Absent]
                  ELSE /\ pc' = [pc EXCEPT ![p] = "loaded"]
                       /\ resp' = [resp EXCEPT ![p] =
                                      [found |-> TRUE, html |-> cache[path].html]]
          ELSE /\ loaded' = [loaded EXCEPT ![p] = <<>>]
               /\ pc' = [pc EXCEPT ![p] = "loaded"]
               /\ resp' = [resp EXCEPT ![p] = Absent]
  /\ UNCHANGED <<activities, sources, domains, txn, submitted, accepted, liked, authz, tasks,
                 lifecycle>>

\* CachedPage.load: cached.key.delete() and return None
LoadDelete(p) ==
  /\ pc[p] = "delete"
  /\ cache' = invalidate(cache, req[p].path)
  /\ pc' = [pc EXCEPT ![p] = "loaded"]
  /\ UNCHANGED <<activities, sources, domains, txn, req, resp, loaded, submitted, accepted,
                 liked, authz, tasks, cookie, oauth, now, stored>>

\* load has returned to its caller
LoadReturn(p) ==
  /\ pc[p] = "loaded"
  /\ pc' = [pc EXCEPT ![p] = "idle"]
  /\ resp' = [resp EXCEPT ![p] = Absent]
  /\ loaded' = [loaded EXCEPT ![p] = <<>>]
  /\ UNCHANGED <<activities, sources, domains, txn, req, submitted, accepted, liked, authz,
                 tasks, lifecycle>>

\* time passes
Tick ==
  /\ now < MaxTime
  /\ now' = now + 1
  /\ UNCHANGED <<activities, sources, domains, txn, pc, req, resp, loaded, submitted,
                 accepted, liked, authz, tasks, cache, cookie, oauth, stored>>

CacheNext(procs, paths) ==
  \/ \E p \in procs : Store(p, paths)
  \/ \E p \in procs : Invalidate(p, paths)
  \/ \E p \in procs : LoadRead(p, paths)
  \/ \E p \in procs : LoadDelete(p)
  \/ \E p \in procs : LoadReturn(p)
  \/ Tick

\* one client, whose operations follow one another
CacheProcs == {"c1"}

SpecCache == InitClients(CacheProcs) /\ [][CacheNext(CacheProcs, CachePaths)]_vars

\* two clients, whose operations on the listing page overlap
RaceProcs == {"c1", "c2"}

SpecCacheRace == InitClients(RaceProcs) /\ [][CacheNext(RaceProcs, {UsersPath})]_vars

\* the last store for the path was not invalidated and its expiry, store
\* time plus ttl, has not passed
Live(path) ==
  /\ path \in DOMAIN stored
  /\ stored[path].ttl = NoExpiry \/ now <= stored[path].at + stored[path].ttl

\* C24: a load returns the html last stored for the path when that store
\* was not invalidated since and its expiry has not passed, be it stored
\* without ttl or with one, and leaves the cache as it is; else it returns
\* absent, and after a load past the expiry the path has no entry.
C24_LoadServesLiveEntries ==
  [][\A p \in CacheProcs :
       /\ (pc[p] = "idle" /\ pc'[p] # "idle") =>
            LET path == req'[p].path
            IN IF Live(path)
               THEN /\ pc'[p] = "loaded"
                    /\ resp'[p] = [found |-> TRUE, html |-> stored[path].html]
                    /\ cache' = cache
               ELSE /\ resp'[p] = Absent
                    /\ path \in DOMAIN cache => pc'[p] = "delete"
       /\ (pc[p] = "delete" /\ pc'[p] # "delete") =>
            /\ req[p].path \notin DOMAIN cache'
            /\ resp'[p] = Absent]_vars

\* a page stored with ttl 0 was loaded after time passed: absent, and the
\* entry is gone, while the page stored without ttl is still there
C24_Witness ==
  /\ pc["c1"] = "loaded"
  /\ req["c1"] = CacheOp("load", UsersPath)
  /\ DOMAIN stored = CachePaths
  /\ stored[UsersPath].ttl = 0
  /\ now > stored[UsersPath].at
  /\ resp["c1"] = Absent
  /\ UsersPath \notin DOMAIN cache
  /\ HomePath \in DOMAIN cache
  /\ stored[HomePath].ttl = NoExpiry

\* C30: when load deletes the entry it found expired, an unexpired entry
\* that another client stored for the path after load read it stays in the
\* cache.
C30_LoadKeepsFreshEntry ==
  [][\A p \in RaceProcs :
       (/\ pc[p] = "delete"
        /\ pc'[p] # "delete"
        /\ req[p].path \in DOMAIN cache
        /\ cache[req[p].path] # loaded[p]
        /\ ~expired(cache[req[p].path], now)) =>
         /\ req[p].path \in DOMAIN cache'
         /\ cache'[req[p].path] = cache[req[p].path]]_vars

\* ------------------------------------------------------------ remote fetch
MAX_HTTP_RESPONSE_SIZE == 5000000

HTTP_REQUEST_REFUSED_STATUS_CODE == 599

URL_BLACKLIST == {"http://www.evdemon.org/2015/learning-more-about-quill"}

FetchProcs == {"g1"}

\* a Content-Length header value: a number's text, or other text
Header(is_int, value) == [is_int |-> is_int, value |-> value]

\* a requests.Response: the status, whose body it has (the server's, not
\* yet read, or a text of Bridgy's), and the server's Content-Length
Response(status_code, content, length) ==
  [status_code |-> status_code, content |-> content, length |-> length]

NoResponse == Response(0, "", Header(TRUE, 0))

InitFetch ==
  /\ pc = [p \in FetchProcs |-> "idle"]
  /\ req = [p \in FetchProcs |-> ""]
  /\ resp = [p \in FetchProcs |-> NoResponse]
  /\ loaded = [p \in FetchProcs |-> NoResponse]
  /\ activities = <<>>
  /\ sources = <<>>
  /\ domains = <<>>
  /\ txn = <<>>
  /\ authz = <<>>
  /\ submitted = 0
  /\ accepted = {}
  /\ liked = {}
  /\ InitSite

\* variant: a response of just the limit is refused too
finish_request_at_limit(remote) ==
  IF remote.length.is_int /\ remote.length.value >= MAX_HTTP_RESPONSE_SIZE
  THEN Response(HTTP_REQUEST_REFUSED_STATUS_CODE, "Content-Length is larger than our limit.",
                remote.length)
  ELSE remote

\* requests_get after requests.get has returned the response, its body
\* not read: util.is_int(length) and int(length) > MAX_HTTP_RESPONSE_SIZE
finish_request(remote) ==
  IF remote.length.is_int /\ remote.length.value > MAX_HTTP_RESPONSE_SIZE
  THEN Response(HTTP_REQUEST_REFUSED_STATUS_CODE, "Content-Length is larger than our limit.",
                remote.length)
  ELSE remote

\* requests_get(url) up to requests.get: a blacklisted url is answered at
\* once; for any other the request goes out
FetchStart(p) ==
  /\ pc[p] = "idle"
  /\ submitted < MaxFetches
  /\ submitted' = submitted + 1
  /\ \E url \in URL_BLACKLIST \cup {"http://example.com/post", "http://example.com/big"} :
       /\ req' = [req EXCEPT ![p] = url]
       /\ IF url \in URL_BLACKLIST
          THEN /\ resp' = [resp EXCEPT ![p] =
                             Response(HTTP_REQUEST_REFUSED_STATUS_CODE,
                                      "Sorry, Bridgy has blacklisted this URL.",
                                      Header(TRUE, 0))]
               /\ pc' = [pc EXCEPT ![p] = "returned"]
               /\ UNCHANGED tasks
          ELSE /\ pc' = [pc EXCEPT ![p] = "sent"]
               /\ tasks' = Append(tasks, url)
               /\ UNCHANGED resp
  /\ UNCHANGED <<activities, sources, domains, txn, loaded, accepted, liked, authz,
                 lifecycle>>

\* requests.get(url, stream=True) returns the server's response, and
\* requests_get returns it or the refusal;
\* resp.headers.get('Content-Length', 0) is 0 when the header is missing
FetchFinish(p) ==
  /\ pc[p] = "sent"
  /\ LET ContentLengths ==
           {Header(TRUE, n) : n \in {0, 1, MAX_HTTP_RESPONSE_SIZE - 1, MAX_HTTP_RESPONSE_SIZE,
                                     MAX_HTTP_RESPONSE_SIZE + 1, 2 * MAX_HTTP_RESPONSE_SIZE}}
           \cup {Header(FALSE, 0), Header(FALSE, MAX_HTTP_RESPONSE_SIZE + 1)}
     IN \E status_code \in {200, 404, 503}, length \in ContentLengths :
          LET remote == Response(status_code, "remote", length)
          IN /\ loaded' = [loaded EXCEPT ![p] = remote]
             /\ resp' = [resp EXCEPT ![p] = finish_request(remote)]
  /\ pc' = [pc EXCEPT ![p] = "returned"]
  /\ UNCHANGED <<activities, sources, domains, txn, req, submitted, accepted, liked, authz,
                 tasks, lifecycle>>

\* the caller has the response and goes on
FetchReturn(p) ==
  /\ pc[p] = "returned"
  /\ pc' = [pc EXCEPT ![p] = "idle"]
  /\ resp' = [resp EXCEPT ![p] = NoResponse]
  /\ loaded' = [loaded EXCEPT ![p] = NoResponse]
  /\ UNCHANGED <<activities, sources, domains, txn, req, submitted, accepted, liked, authz,
                 tasks, lifecycle>>

\* requests_get, called time after time
SpecFetch ==
  InitFetch /\ [][\/ \E p \in FetchProcs : FetchStart(p)
                  \/ \E p \in FetchProcs : FetchFinish(p)
                  \/ \E p \in FetchProcs : FetchReturn(p)]_vars

\* the response is a refusal of Bridgy's
Refused(r) == r.status_code = 599 /\ r.content # "remote"

\* C25: requests_get returns a response in every case; it is a refusal
\* with status 599 exactly when the url is blacklisted, and then no request
\* was sent, or the server's Content-Length is an integer above 5000000,
\* and then the server's body is not in it; any other response is the
\* server's, status and all.
C25_RefusedFetchIs599 ==
  [][\A p \in FetchProcs :
       /\ (pc[p] = "idle" /\ pc'[p] # "idle") =>
            IF req'[p] \in URL_BLACKLIST
            THEN pc'[p] = "returned" /\ Refused(resp'[p]) /\ tasks' = tasks
            ELSE pc'[p] = "sent" /\ tasks' = Append(tasks, req'[p])
       /\ (pc[p] = "sent" /\ pc'[p] # "sent") =>
            /\ pc'[p] = "returned"
            /\ IF loaded'[p].length.is_int /\ loaded'[p].length.value > 5000000
               THEN Refused(resp'[p])
               ELSE resp'[p] = loaded'[p] /\ ~Refused(resp'[p])]_vars

\* a response announced with a Content-Length of 5000001 was refused, one
\* request sent
C25_Witness ==
  /\ pc["g1"] = "returned"
  /\ loaded["g1"].status_code = 200
  /\ loaded["g1"].length = Header(TRUE, 5000001)
  /\ resp["g1"].status_code = 599
  /\ Len(tasks) = 1

\* ------------------------------------------------------------ restarted flow
\* handler h serves the callback of a flow that was restarted
RestartedCallback(h) == pc[h] # "idle" /\ \E f \in oauth : f.phase = "back"

\* C26: a restarted flow carries an add for publish alone; its callback
\* never restarts the flow again, and when the user approved it and the
\* Account was returned, the Account holds listen and publish, each time
\* the sequence is run.
C26_RestartHappensOnce ==
  /\ \A f \in oauth :
       /\ decode_state_parameter(f.state).kind = "dict"
       /\ feature_split(Get(decode_state_parameter(f.state).obj, "feature", Null)) = {"publish"}
       /\ Get(decode_state_parameter(f.state).obj, "operation", "add") = "add"
  /\ \A h \in LifecycleProcs :
       RestartedCallback(h) =>
         /\ ~Restarts(resp[h])
         /\ (pc[h] \in {"finish", "done"} /\ loaded[h] # <<>>) =>
              sources[loaded[h].id].features = {"listen", "publish"}

\* the approved callback of a restarted flow has been served and the
\* Account holds both features, the user having started two flows
C26_Witness ==
  /\ pc["h1"] = "done"
  /\ RestartedCallback("h1")
  /\ loaded["h1"] # <<>>
  /\ submitted = 2
  /\ sources["alice"].features = {"listen", "publish"}

\* ------------------------------------------------- writes and authorization
\* handler p takes a step
Steps(p) == pc'[p] # pc[p]

\* the step writes an Activity, an Account or a poll task
Writes == activities' # activities \/ sources' # sources \/ tasks' # tasks

\* C27: the step in which auth or check_token_for_actor turns a handler
\* down writes no Activity, no Account and no poll task and ends the
\* request; a handler that writes was authorized before; and a step of the
\* likes handler creates no Activity.
C27_NoWriteBeforeAuthorization ==
  [][\A p \in AuthProcs :
       /\ (Steps(p) /\ authz'[p] # authz[p] /\ authz'[p].out.status # 200) =>
            /\ ~Writes
            /\ pc'[p] = "done"
            /\ resp'[p] = [status |-> authz'[p].out.status, body |-> <<>>]
            /\ authz'[p].out.status \in {400, 403, 404}
       /\ (pc[p] = "done" /\ authz[p] # <<>> /\ authz[p].out.status # 200) => ~Steps(p)
       /\ (Steps(p) /\ Writes) => authz'[p] # <<>> /\ authz'[p].out.status = 200
       /\ (Steps(p) /\ p \in LikesProcs) => DOMAIN activities' = DOMAIN activities]_vars

\* the profile handler and the poll handler were both turned down: no
\* Account for the profile's actor, no task
C27_Witness ==
  /\ Rejected("f1")
  /\ authz["f1"].out.status = 403
  /\ req["f1"].actor.username \notin DOMAIN sources
  /\ Rejected("q1")
  /\ authz["q1"].out.status = 404
  /\ tasks = <<>>

\* ---------------------------------------------------------------- ownership
\* C28: a post submission that commits creates an Activity owned by the
\* Account auth returned, or modifies one that this Account owns; and no
\* step changes the owner of a stored Activity.
C28_OnlyOwnerModifies ==
  [][/\ \A p \in PostProcs :
          PostCommits(p) =>
            IF ActivityId \in DOMAIN activities
            THEN activities[ActivityId].source = Owner(req[p])
            ELSE activities'[ActivityId].source = Owner(req[p])
     /\ \A id \in DOMAIN activities :
          id \in DOMAIN activities' /\ activities'[id].source = activities[id].source]_vars

\* --------------------------------------------------------- the listing page
\* a request for the listing page
ListingProcs == {"u1"}

\* what is stored when the requests arrive: Accounts and cookie of a
\* lifecycle site, and no cached listing page or the one rendered from those
\* Accounts; a rendered page is taken for the Accounts it lists
InitListing ==
  /\ \E s \in LifecycleSites :
       /\ sources = s.sources
       /\ cache \in {<<>>, store(<<>>, UsersPath, DOMAIN s.sources, NoExpiry, 0)}
       /\ cookie = s.cookie
  /\ activities = <<>>
  /\ domains = <<>>
  /\ pc = [p \in LifecycleProcs \cup ListingProcs |-> "idle"]
  /\ req = [p \in LifecycleProcs \cup ListingProcs |-> <<>>]
  /\ loaded = [p \in LifecycleProcs \cup ListingProcs |-> <<>>]
  /\ resp = [p \in LifecycleProcs \cup ListingProcs |-> NoReply]
  /\ txn = <<>>
  /\ authz = <<>>
  /\ submitted = 0
  /\ accepted = {}
  /\ liked = {}
  /\ tasks = <<>>
  /\ oauth = {}
  /\ now = 0
  /\ stored = <<>>

\* the listing handler up to its rendering: CachedPage.load finds no page,
\* and the Accounts are queried
RenderRead(u) ==
  /\ pc[u] = "idle"
  /\ UsersPath \notin DOMAIN cache
  /\ loaded' = [loaded EXCEPT ![u] = [html |-> DOMAIN sources]]
  /\ pc' = [pc EXCEPT ![u] = "render"]
  /\ UNCHANGED <<activities, sources, domains, txn, req, resp, submitted, accepted, liked,
                 authz, tasks, lifecycle>>

\* the listing handler stores the page it rendered and responds
RenderStore(u) ==
  /\ pc[u] = "render"
  /\ cache' = store(cache, UsersPath, loaded[u].html, NoExpiry, now)
  /\ loaded' = [loaded EXCEPT ![u] = <<>>]
  /\ pc' = [pc EXCEPT ![u] = "idle"]
  /\ UNCHANGED <<activities, sources, domains, txn, req, resp, submitted, accepted, liked,
                 authz, tasks, cookie, oauth, now, stored>>

\* the Twitter add callback and requests for the listing page, served side
\* by side
SpecListing ==
  InitListing /\ [][\/ NextLifecycle
                    \/ \E u \in ListingProcs : RenderRead(u)
                    \/ \E u \in ListingProcs : RenderStore(u)]_vars

\* C29: from the moment maybe_add_or_delete_source has upserted the Account
\* of an authorized add until its response is sent, a listing page in the
\* cache lists that Account.
C29_ListingReflectsUpsert ==
  \A h \in LifecycleProcs :
    (/\ pc[h] \in {"finish", "done"}
     /\ loaded[h] # <<>>
     /\ UsersPath \in DOMAIN cache)
      => loaded[h].id \in cache[UsersPath].html

====
